---- MODULE Spec2Model ----
(***************************************************************************)
(* Model of the google-form-auto-filler extension.                         *)
(*                                                                         *)
(* Part I  : RunEngine (lib/run-engine), the background batch run.         *)
(* Part II : FormAutomator (content script), the inline multi-submission   *)
(*           loop with its probability validation.                         *)
(*                                                                         *)
(* JavaScript is single threaded: one action of the model is the code that *)
(* runs between two suspension points (an await, a timer, an event).       *)
(***************************************************************************)
EXTENDS Integers, Sequences, FiniteSets, TLC

(***************************************************************************)
(* Bounds of the model                                                     *)
(***************************************************************************)
MaxRuns == 2      \* startRun invocations the model can hold at the same time
MaxCount == 3     \* largest config.count
MaxDelay == 2     \* longest inter-iteration delay, in ticks
MaxLoops == 2     \* handleSubmit loops the model can hold at the same time
MaxFormCount == 2 \* largest submissionConfig.count entered in the panel
MaxEdits == 1     \* edits of probability inputs in one behaviour
MaxAbs == 2       \* largest absolute value of a bound of a range spec
Resolution == 4   \* Math.random() is drawn from the multiples of 1 / Resolution in [0, 1)
MaxOptions == 2   \* longest option list of a distribution spec
MaxWeight == 2    \* largest weight of a distribution spec
MaxTextLen == 4   \* longest label text given to fuzzyMatchText, in letters
MaxMarkers == 2   \* most type keywords in one data-question-type attribute
MaxSet == 3       \* most attributes and contents an element has set
MaxNodes == 3     \* most label nodes found in one question element
MaxProcs == 2     \* StorageManager calls that can be in flight at the same time
MaxOps == 3       \* StorageManager calls made in one behaviour
MaxTyped == 3     \* largest magnitude of a number typed into an input of the panel

RunIds == 1..MaxRuns
NoProcess == 0

VARIABLES
  runningProcess,   \* RunEngine.runningProcess: NoProcess or the id of the run whose controller it holds
  run,              \* per startRun invocation: loop position, locals and the progress object
  startCalls,       \* parity of the number of startRun calls made so far
  lastStart,        \* how the latest startRun call went: "none", "accepted" or "rejected" (it threw)
  reported,         \* per run: the progress snapshots handed to onProgress, in order
  stopInfo,         \* per run: what the run looked like when stopRun() aborted it
  ackVisible,       \* document.body text currently contains an acknowledgement phrase
  controlsInjected, \* detectAndInjectQuestionControls has run
  mode,             \* per question: config.mode, which is also the state of its toggle checkbox
  inputValue,       \* per question and cell: the value of the probability input in the page
  probabilities,    \* per question and cell: config.probabilities / config.gridProbabilities
  errorBox,         \* per question: the error container (display, and the row its text names)
  isSubmitting,     \* FormAutomator.isSubmitting
  loops,            \* per handleSubmit invocation past its guards: suspension point and i
  formCount,        \* submissionConfig.count
  fieldValue,       \* per question and row: the option selected in the form (0: none)
  lastClick,        \* the latest click on the submit button: "none", by the user ("busy":
                    \* handleSubmit returned at its guard, "invalid": at the validation)
                    \* or by submitForm ("loop")
  edits,            \* number of probability edits made so far
  submissions,      \* clicks on the submit button that reached the form (it was submitted)
  fixedSince,       \* history of the fixed questions, kept in the behaviours that start
                    \* with it switched on; kept: while a loop runs, the questions that
                    \* have been in fixed mode since it started, each with whether all
                    \* its fields have held their values since then
  intervalMin,      \* submissionConfig.intervalMin
  intervalMax,      \* submissionConfig.intervalMax
  sessionConfig,    \* sessionStorage "gformtasker-config" ({}: no item)
  call,             \* the latest call of a library function: its name, arguments and result
  syncArea,         \* chrome.storage.sync: the value under the presets key ({}: no key)
  localArea,        \* chrome.storage.local: the same
  syncFailed,       \* StorageManager.syncFailed
  task,             \* per caller: the StorageManager call in flight, where it waits, its
                    \* locals, and its result once it has resolved
  ops,              \* number of StorageManager calls made so far
  storeLog          \* history of the calls: whether two have been in flight together,
                    \* whether a storage get or set has failed, the list of the latest
                    \* savePresets that resolved, the ids of the savePreset calls that
                    \* resolved, and whether savePresets was called from outside

runVars == <<runningProcess, run, startCalls, lastStart, reported, stopInfo, ackVisible>>

formVars == <<controlsInjected, mode, inputValue, probabilities, errorBox, isSubmitting,
              loops, formCount, fieldValue, lastClick, edits, submissions, fixedSince,
              intervalMin, intervalMax, sessionConfig>>

planVars == <<intervalMin, intervalMax, sessionConfig>>

libVars == <<call>>

storeVars == <<syncArea, localArea, syncFailed, task, ops, storeLog>>

vars == <<runVars, formVars, libVars, storeVars>>

RECURSIVE SumOver(_, _)
SumOver(f, S) ==
  IF S = {} THEN 0
  ELSE LET x == CHOOSE y \in S : TRUE IN f[x] + SumOver(f, S \ {x})

(***************************************************************************)
(* Library functions.  An action calls one function on inputs drawn from a *)
(* bounded set and keeps the call with its result.                         *)
(***************************************************************************)
NoCall == [fn |-> "none"]

LibInit == call = NoCall

\* --- RunEngine.detectConfirmationPage ---
\* A text is modelled word by word; cap tells that the word is written with
\* an upper-case letter.  The words of a text are separated by one blank.
Word(w) == [w |-> w, cap |-> FALSE]
Cap(w) == [w |-> w, cap |-> TRUE]

\* The array confirmText, as written in the source.
confirmText ==
  << <<Cap("your"), Word("response"), Word("has"), Word("been"), Word("recorded")>>,
     <<Cap("thanks"), Word("for"), Word("your"), Word("response")>>,
     <<Cap("thank"), Word("you"), Word("for"), Word("completing"), Word("this"), Word("form")>>,
     <<Word("response"), Word("was"), Word("recorded")>>,
     <<Word("submit"), Word("another"), Word("response")>> >>

ToLowerCase(text) == [k \in 1..Len(text) |-> Word(text[k].w)]
ToUpperCase(text) == [k \in 1..Len(text) |-> Cap(text[k].w)]

\* String.prototype.includes, on whole words
Includes(text, part) ==
  \E k \in 0..(Len(text) - Len(part)) :
    \A j \in 1..Len(part) : text[k + j] = part[j]

\* confirmText.some((text) => bodyText.toLowerCase().includes(text))
detectConfirmationPage(bodyText) ==
  \E n \in 1..Len(confirmText) : Includes(ToLowerCase(bodyText), confirmText[n])

\* Page texts: every phrase as the page may write it (as in confirmText, in
\* lower case, in upper case), alone or inside other text, and texts with none.
OtherTexts ==
  { << >>, <<Cap("next")>>, <<Cap("your"), Word("response")>>,
    <<Word("response"), Word("recorded")>>, <<Cap("submit")>> }

PageTexts ==
  LET written == {confirmText[n] : n \in 1..Len(confirmText)}
      cased == written \cup {ToLowerCase(t) : t \in written} \cup {ToUpperCase(t) : t \in written}
  IN cased \cup {<<Cap("form")>> \o t \o <<Word("again")>> : t \in cased} \cup OtherTexts

CallDetectConfirmationPage(bodyText) ==
  /\ call' = [fn |-> "detectConfirmationPage", text |-> bodyText,
               result |-> detectConfirmationPage(bodyText)]
  /\ UNCHANGED <<runVars, formVars, storeVars>>

\* --- RandomizationEngine: range specs ---
\* An optional number of a config is the empty set when absent, else {n}.
Numbers == {{n} : n \in (0 - MaxAbs)..MaxAbs}
OptionalNumbers == Numbers \cup {{}}
NumberOf(x) == CHOOSE n \in x : TRUE

DefaultMin == 0
DefaultMax == 100

\* x || d
OrDefault(x, d) == IF x = {} \/ x = {0} THEN d ELSE NumberOf(x)

RandomDraws == 0..(Resolution - 1)

\* Math.floor(Math.random() * (max - min + 1)) + min, Math.random() = k / Resolution
generateRange(min, max, k) == ((k * (max - min + 1)) \div Resolution) + min

\* --- RandomizationEngine: custom expressions ---
\* An expression is modelled by what evaluating it does: "value" (it
\* evaluates), "syntax" (new Function throws a SyntaxError) or "runtime" (the
\* function throws when called; its own catch rethrows as Error).
Expressions == {"value", "syntax", "runtime"}

\* The outer try/catch left out: the error leaves the function.
evaluateCustomExpressionUncaught(expression) ==
  IF expression = "value"
    THEN [thrown |-> FALSE, value |-> "value"]
    ELSE [thrown |-> TRUE, value |-> "none"]

\* try { new Function(...); return func(Math, Date) } catch { return null }
evaluateCustomExpression(expression) ==
  IF expression = "value"
    THEN [thrown |-> FALSE, value |-> "value"]
    ELSE [thrown |-> FALSE, value |-> "null"]

\* generate, cases "range" and "custom_js": what it returns, or that it threw
generate(config, k) ==
  IF config.type = "range"
    THEN [thrown |-> FALSE,
          value |-> generateRange(OrDefault(config.min, DefaultMin),
                                  OrDefault(config.max, DefaultMax), k)]
    ELSE evaluateCustomExpression(config.expression)

\* validateConfig, case "range": the errors array
validateConfig(config) ==
  (IF config.min = {} \/ config.max = {}
     THEN <<"Range requires min and max numbers">> ELSE << >>)
  \o (IF OrDefault(config.min, DefaultMin) > OrDefault(config.max, DefaultMax)
        THEN <<"Min must be less than or equal to max">> ELSE << >>)

\* --- RandomizationEngine: weighted distribution ---
OptionLabels == {"A", "B", "C"}

\* Non-empty option lists without repetition.
OptionLists ==
  UNION {{os \in [1..n -> OptionLabels] : \A a, b \in 1..n : a # b => os[a] # os[b]}
         : n \in 1..MaxOptions}

\* weights: a partial map from option text to a number
WeightMaps == UNION {[keys -> 0..MaxWeight] : keys \in SUBSET OptionLabels}

\* Object.values(weights).reduce((a, b) => a + b, 0)
totalWeight(weights) == SumOver(weights, DOMAIN weights)

\* weights[optionKey] || 1
WeightInLoop(weights, option) ==
  IF option \in DOMAIN weights /\ weights[option] # 0 THEN weights[option] ELSE 1

\* options[Math.floor(Math.random() * options.length)], Math.random() = k / Resolution
generatePick(options, k) == options[((k * Len(options)) \div Resolution) + 1]

\* The loop of generateWeighted for random = r2 / 2: the first option at
\* which random, less the weights so far, is no longer positive; else the last.
WeightedLoop(options, weights, r2) ==
  LET spent(n) == SumOver([j \in 1..n |-> WeightInLoop(weights, options[j])], 1..n)
      hits == {n \in 1..Len(options) : r2 - 2 * spent(n) <= 0}
  IN IF hits = {} THEN options[Len(options)]
     ELSE options[CHOOSE n \in hits : \A j \in hits : n <= j]

\* Values of Math.random() * totalWeight, in halves.  The weights are whole
\* numbers, so the loop returns the same option for all values between two
\* neighbouring halves.  (With totalWeight 0: the draws of generatePick.)
WeightedDraws(weights) ==
  IF totalWeight(weights) = 0 THEN RandomDraws ELSE 0..(2 * totalWeight(weights) - 1)

generateWeighted(options, weights, draw) ==
  IF totalWeight(weights) = 0
    THEN generatePick(options, draw)
    ELSE WeightedLoop(options, weights, draw)

CallGenerateWeighted(options, weights, draw) ==
  /\ call' = [fn |-> "generateWeighted", options |-> options, weights |-> weights,
               result |-> generateWeighted(options, weights, draw)]
  /\ UNCHANGED <<runVars, formVars, storeVars>>

\* --- MappingEngine.fuzzyMatchText ---
\* A string is the sequence of its characters, each a one-character string.
LowerOf(ch) == CASE ch = "A" -> "a" [] ch = "B" -> "b" [] OTHER -> ch
UpperOf(ch) == CASE ch = "a" -> "A" [] ch = "b" -> "B" [] OTHER -> ch

\* String.prototype.toLowerCase and toUpperCase
LowerCase(str) == [k \in 1..Len(str) |-> LowerOf(str[k])]
UpperCase(str) == [k \in 1..Len(str) |-> UpperOf(str[k])]

\* String.prototype.trim
Trim(str) ==
  LET inked == {k \in 1..Len(str) : str[k] # " "}
  IN IF inked = {} THEN << >>
     ELSE SubSeq(str, CHOOSE k \in inked : \A j \in inked : k <= j,
                      CHOOSE k \in inked : \A j \in inked : k >= j)

Min2(x, y) == IF x < y THEN x ELSE y

\* The inner loop of levenshteinDistance for the character ch of a: costs is
\* the array before the pass, row the new entries costs[0], costs[1], ...
\* written so far (its last one is lastValue).
RECURSIVE InnerLoop(_, _, _, _)
InnerLoop(ch, b, costs, row) ==
  IF Len(row) = Len(b) + 1 THEN row
  ELSE LET j == Len(row)
           newValue == IF ch # b[j]
                         THEN Min2(Min2(costs[j], row[j]), costs[j + 1]) + 1
                         ELSE costs[j]
       IN InnerLoop(ch, b, costs, Append(row, newValue))

\* The outer loop of levenshteinDistance from row i on.
RECURSIVE OuterLoop(_, _, _, _)
OuterLoop(a, b, i, costs) ==
  IF i > Len(a) THEN costs
  ELSE OuterLoop(a, b, i + 1, InnerLoop(a[i], b, costs, <<i>>))

levenshteinDistance(a, b) ==
  OuterLoop(a, b, 1, [k \in 1..(Len(b) + 1) |-> k - 1])[Len(b) + 1]

\* stringSimilarity(a, b) as the fraction num / den
stringSimilarity(a, b) ==
  LET longer == IF Len(a) > Len(b) THEN a ELSE b
      shorter == IF Len(a) > Len(b) THEN b ELSE a
  IN IF Len(longer) = 0 THEN [num |-> 1, den |-> 1]
     ELSE [num |-> 2 * (Len(longer) - levenshteinDistance(longer, shorter)),
           den |-> 2 * Len(longer)]

Greater(x, y) == x.num * y.den > y.num * x.den
Threshold == [num |-> 7, den |-> 10]

\* The last loop of fuzzyMatchText after the first n candidates: the index of
\* bestMatch (0: null).
RECURSIVE BestMatch(_, _, _)
BestMatch(normalized, targetTexts, n) ==
  IF n = 0 THEN 0
  ELSE LET best == BestMatch(normalized, targetTexts, n - 1)
           bestScore == IF best = 0 THEN [num |-> 0, den |-> 1]
                        ELSE stringSimilarity(normalized, LowerCase(targetTexts[best]))
           score == stringSimilarity(normalized, LowerCase(targetTexts[n]))
       IN IF Greater(score, bestScore) /\ Greater(score, Threshold) THEN n ELSE best

First(indices) == IF indices = {} THEN 0 ELSE CHOOSE n \in indices : \A m \in indices : n <= m

ExactMatches(normalized, targetTexts) ==
  {n \in 1..Len(targetTexts) : LowerCase(targetTexts[n]) = normalized}

SubstringMatches(normalized, targetTexts) ==
  {n \in 1..Len(targetTexts) :
     \/ Includes(normalized, LowerCase(targetTexts[n]))
     \/ Includes(LowerCase(targetTexts[n]), normalized)}

\* fuzzyMatchText: the empty set for null, else the set of the target returned
fuzzyMatchText(sourceText, targetTexts) ==
  LET normalized == Trim(LowerCase(sourceText))
      exact == First(ExactMatches(normalized, targetTexts))
      substring == First(SubstringMatches(normalized, targetTexts))
      best == BestMatch(normalized, targetTexts, Len(targetTexts))
      found == IF exact # 0 THEN exact ELSE IF substring # 0 THEN substring ELSE best
  IN IF found = 0 THEN {} ELSE {targetTexts[found]}

\* Label texts: the strings of at most MaxTextLen letters a with at most one
\* letter b among them.
Letters == {"a", "b"}
PlainTexts ==
  {str \in UNION {[1..n -> Letters] : n \in 0..MaxTextLen} :
     Cardinality({k \in 1..Len(str) : str[k] = "b"}) <= 1}
Padded(str) == <<" ">> \o str \o <<" ">>
SourceTexts == PlainTexts \cup {Padded(UpperCase(str)) : str \in PlainTexts}
TargetLists ==
  LET plain == UNION {[1..n -> PlainTexts \ {<< >>}] : n \in 1..2}
  IN plain \cup {[k \in 1..Len(ts) |-> UpperCase(ts[k])] : ts \in plain}
           \cup {[k \in 1..Len(ts) |-> Padded(ts[k])] : ts \in plain}

CallFuzzyMatchText(sourceText, targetTexts) ==
  /\ call' = [fn |-> "fuzzyMatchText", sourceText |-> sourceText, targetTexts |-> targetTexts,
               result |-> fuzzyMatchText(sourceText, targetTexts)]
  /\ UNCHANGED <<runVars, formVars, storeVars>>

\* --- MappingEngine.detectQuestionType ---
\* The keywords looked for in the data-question-type attribute; the attribute
\* value is the set of the keywords it includes.
MarkerWords ==
  {"paragraph", "short_text", "radio", "checkbox", "dropdown", "linear", "date", "time", "file"}
DataTypes == {ws \in SUBSET MarkerWords : Cardinality(ws) <= MaxMarkers}

\* textContent and aria-label: the cue word the string contains, if any (no
\* cue contains another), and whether it is written in upper case.
TextCues == {"scale", "file", "check", "select"}
AriaCues == {"scale", "file", "checkbox", "choose"}
NoText == [cues |-> {}, cap |-> FALSE]
TextsOver(cues) == {NoText} \cup [cues : {{c} : c \in cues}, cap : BOOLEAN]

TextToLowerCase(str) == [str EXCEPT !.cap = FALSE]
TextIncludes(str, word) == ~str.cap /\ word \in str.cues

\* The type attribute ("": absent), lower-cased by the code; tag names; the
\* role attribute ("": absent), compared as it is.
InputTypes == {"", "text", "TEXT", "file", "date", "time", "radio"}
TypeToLowerCase(t) == IF t = "TEXT" THEN "text" ELSE t
TagNames == {"DIV", "TEXTAREA", "SELECT"}
Roles == {"", "radio", "RADIO", "checkbox", "listbox"}

BlankElement ==
  [dataType |-> {}, type |-> "", tagName |-> "DIV", role |-> "",
   text |-> NoText, ariaLabel |-> NoText]
SetFields(element) == {f \in DOMAIN element : element[f] # BlankElement[f]}
Elements ==
  {element \in [dataType : DataTypes, type : InputTypes, tagName : TagNames, role : Roles,
                text : TextsOver(TextCues), ariaLabel : TextsOver(AriaCues)] :
     Cardinality(SetFields(element)) <= MaxSet}

QuestionTypes ==
  {"short_answer", "paragraph", "radio", "checkbox", "dropdown", "linear_scale",
   "date", "time", "file_upload"}

\* The role checks placed before the checks of the input type and tag name.
detectQuestionTypeRoleFirst(element) ==
  LET text == TextToLowerCase(element.text)
      ariaLabel == TextToLowerCase(element.ariaLabel)
      dataType == element.dataType
      inputType == TypeToLowerCase(element.type)
      role == element.role
  IN IF "paragraph" \in dataType THEN "paragraph"
     ELSE IF "short_text" \in dataType THEN "short_answer"
     ELSE IF "radio" \in dataType THEN "radio"
     ELSE IF "checkbox" \in dataType THEN "checkbox"
     ELSE IF "dropdown" \in dataType THEN "dropdown"
     ELSE IF "linear" \in dataType THEN "linear_scale"
     ELSE IF "date" \in dataType THEN "date"
     ELSE IF "time" \in dataType THEN "time"
     ELSE IF "file" \in dataType THEN "file_upload"
     ELSE IF role = "radio" THEN "radio"
     ELSE IF role = "checkbox" THEN "checkbox"
     ELSE IF role = "listbox" THEN "dropdown"
     ELSE IF inputType = "text" THEN "short_answer"
     ELSE IF inputType = "file" THEN "file_upload"
     ELSE IF inputType = "date" THEN "date"
     ELSE IF inputType = "time" THEN "time"
     ELSE IF element.tagName = "TEXTAREA" THEN "paragraph"
     ELSE IF element.tagName = "SELECT" THEN "dropdown"
     ELSE IF TextIncludes(text, "scale") \/ TextIncludes(ariaLabel, "scale") THEN "linear_scale"
     ELSE IF TextIncludes(text, "file") \/ TextIncludes(ariaLabel, "file") THEN "file_upload"
     ELSE IF TextIncludes(text, "check") \/ TextIncludes(ariaLabel, "checkbox") THEN "checkbox"
     ELSE IF TextIncludes(text, "select") \/ TextIncludes(ariaLabel, "choose") THEN "dropdown"
     ELSE "short_answer"

detectQuestionType(element) ==
  LET text == TextToLowerCase(element.text)
      ariaLabel == TextToLowerCase(element.ariaLabel)
      dataType == element.dataType
      inputType == TypeToLowerCase(element.type)
      role == element.role
  IN IF "paragraph" \in dataType THEN "paragraph"
     ELSE IF "short_text" \in dataType THEN "short_answer"
     ELSE IF "radio" \in dataType THEN "radio"
     ELSE IF "checkbox" \in dataType THEN "checkbox"
     ELSE IF "dropdown" \in dataType THEN "dropdown"
     ELSE IF "linear" \in dataType THEN "linear_scale"
     ELSE IF "date" \in dataType THEN "date"
     ELSE IF "time" \in dataType THEN "time"
     ELSE IF "file" \in dataType THEN "file_upload"
     ELSE IF inputType = "text" THEN "short_answer"
     ELSE IF inputType = "file" THEN "file_upload"
     ELSE IF inputType = "date" THEN "date"
     ELSE IF inputType = "time" THEN "time"
     ELSE IF element.tagName = "TEXTAREA" THEN "paragraph"
     ELSE IF element.tagName = "SELECT" THEN "dropdown"
     ELSE IF role = "radio" THEN "radio"
     ELSE IF role = "checkbox" THEN "checkbox"
     ELSE IF role = "listbox" THEN "dropdown"
     ELSE IF TextIncludes(text, "scale") \/ TextIncludes(ariaLabel, "scale") THEN "linear_scale"
     ELSE IF TextIncludes(text, "file") \/ TextIncludes(ariaLabel, "file") THEN "file_upload"
     ELSE IF TextIncludes(text, "check") \/ TextIncludes(ariaLabel, "checkbox") THEN "checkbox"
     ELSE IF TextIncludes(text, "select") \/ TextIncludes(ariaLabel, "choose") THEN "dropdown"
     ELSE "short_answer"

CallDetectQuestionType(element) ==
  /\ call' = [fn |-> "detectQuestionType", element |-> element,
               result |-> detectQuestionType(element)]
  /\ UNCHANGED <<runVars, formVars, storeVars>>

\* --- Label extraction: MappingEngine.extractOptions, extractGridStructure,
\* --- FormAutomator.getGridColumns ---
\* The text content of a label node: empty, blank, a label, or a label with
\* white space around it.
NodeTexts == {<< >>, <<" ">>, <<"a">>, <<" ", "a">>, <<"b">>}
NodeLists == UNION {[1..n -> NodeTexts] : n \in 0..MaxNodes}

\* forEach over the nodes of a querySelectorAll: the array options after the
\* nodes from index n on, where a text is pushed if it is not empty and, with
\* unique, not in options yet.
RECURSIVE PushTexts(_, _, _, _)
PushTexts(texts, n, options, unique) ==
  IF n > Len(texts) THEN options
  ELSE LET text == Trim(texts[n])
           pushed == text # << >> /\ (unique => \A k \in 1..Len(options) : options[k] # text)
       IN PushTexts(texts, n + 1, IF pushed THEN Append(options, text) ELSE options, unique)

ChoiceTypes == {"dropdown", "radio", "checkbox", "short_answer"}

\* extractOptions: labels are the texts of the nodes the selector of the
\* branch finds in element, in document order.
extractOptions(labels, type) ==
  IF type = "dropdown" THEN PushTexts(labels, 1, << >>, FALSE)
  ELSE IF type = "radio" \/ type = "checkbox" THEN PushTexts(labels, 1, << >>, TRUE)
  ELSE << >>

\* extractGridStructure for an element inside a container: rows and columns
\* are Sets, which keep the first insertion of each text.
extractGridStructure(rowHeaders, columnHeaders) ==
  [rows |-> PushTexts(rowHeaders, 1, << >>, TRUE),
   columns |-> PushTexts(columnHeaders, 1, << >>, TRUE)]

\* `Option ${i + 1}`
OptionDigits == <<"1", "2", "3", "4", "5", "6", "7", "8", "9">>
OptionLabel(i) == <<"Option ", OptionDigits[i]>>

\* getGridColumns: the column headers, or labels made up from the number of
\* cells of the first row.
getGridColumns(columnHeaders, cellCount) ==
  LET cols == PushTexts(columnHeaders, 1, << >>, FALSE)
  IN IF Len(cols) > 0 THEN cols ELSE [i \in 1..cellCount |-> OptionLabel(i)]

CallExtractOptions(labels, type) ==
  /\ call' = [fn |-> "extractOptions", labels |-> labels, type |-> type,
               result |-> extractOptions(labels, type)]
  /\ UNCHANGED <<runVars, formVars, storeVars>>

CallExtractGridStructure(rowHeaders, columnHeaders) ==
  /\ call' = [fn |-> "extractGridStructure", rowHeaders |-> rowHeaders,
               columnHeaders |-> columnHeaders,
               result |-> extractGridStructure(rowHeaders, columnHeaders)]
  /\ UNCHANGED <<runVars, formVars, storeVars>>

CallGetGridColumns(columnHeaders, cellCount) ==
  /\ call' = [fn |-> "getGridColumns", columnHeaders |-> columnHeaders,
               cellCount |-> cellCount,
               result |-> getGridColumns(columnHeaders, cellCount)]
  /\ UNCHANGED <<runVars, formVars, storeVars>>

(***************************************************************************)
(* The delay between two submissions.  Math.random() is draw / Resolution, *)
(* and a duration is the fraction num / den of a tick.                     *)
(***************************************************************************)
MathMax(x, y) == IF x > y THEN x ELSE y

\* config.jitter: none, and defaultJitter (0.2)
Jitters == {[num |-> 0, den |-> 1], [num |-> 1, den |-> 5]}

\* config.rateLimit, 0 when it is not configured
RateLimits == 0..MaxDelay

DelayConfigs ==
  {c \in [delayMin : 0..MaxDelay, delayMax : 0..MaxDelay, jitter : Jitters,
           rateLimit : RateLimits] : c.delayMin <= c.delayMax}

\* RunEngine.calculateDelay with the two draws of Math.random()
calculateDelay(config, draw1, draw2) ==
  LET den == Resolution * Resolution * config.jitter.den
      \* baseDelay * Resolution
      baseDelay == config.delayMin * Resolution + draw1 * (config.delayMax - config.delayMin)
      \* jitterAmount * Resolution * config.jitter.den
      jitterAmount == baseDelay * config.jitter.num
      \* jitter * den: (Math.random() - 0.5) * 2 is (2 * draw2 - Resolution) / Resolution
      jitter == (2 * draw2 - Resolution) * jitterAmount
      delay == MathMax(0, baseDelay * Resolution * config.jitter.den + jitter)
  IN  IF config.rateLimit # 0
      THEN [num |-> MathMax(delay, config.rateLimit * den), den |-> den]
      ELSE [num |-> delay, den |-> den]

\* The interval of handleSubmit:
\* Math.random() * (intervalMax - intervalMin) + intervalMin
submitInterval(min, max, draw) ==
  [num |-> draw * (max - min) + min * Resolution, den |-> Resolution]

CallCalculateDelay(config, draw1, draw2) ==
  /\ call' = [fn |-> "calculateDelay", min |-> config.delayMin, max |-> config.delayMax,
               config |-> config, result |-> calculateDelay(config, draw1, draw2)]
  /\ UNCHANGED <<runVars, formVars, storeVars>>

CallSubmitInterval(min, max, draw) ==
  /\ call' = [fn |-> "submitInterval", min |-> min, max |-> max,
               result |-> submitInterval(min, max, draw)]
  /\ UNCHANGED <<runVars, formVars, storeVars>>

(***************************************************************************)
(* The questions a pass over the page works on.  findAllQuestions returns  *)
(* the elements that match its selectors; each is taken to its question    *)
(* container (closest(".Qr7Oae")) and getEntryId names the question, so a  *)
(* discovered element is kept as the entry id it resolves to.              *)
(***************************************************************************)
EntryIds == {"e1", "e2"}

\* What findAllQuestions returns, resolved: the radio elements of one question
\* all resolve to that question.
Discoveries == UNION {[1..n -> EntryIds] : n \in 0..MaxNodes}

\* this.questions: the mode of the config of an entry id, "none" without a config
QuestionModes == [EntryIds -> {"fixed", "random", "none"}]

\* The forEach of detectAndInjectQuestionControls from element n on: the entry
\* ids that get controls, in order.
RECURSIVE InjectLoop(_, _, _, _)
InjectLoop(found, n, seen, injected) ==
  IF n > Len(found) THEN injected
  ELSE IF found[n] \in seen
    THEN InjectLoop(found, n + 1, seen, injected)
    ELSE InjectLoop(found, n + 1, seen \cup {found[n]}, Append(injected, found[n]))

detectAndInjectQuestionControls(found) == InjectLoop(found, 1, {}, << >>)

\* The forEach of fillForm from element n on: the entry ids applyRandomValue
\* is called for, in order.  Each call draws one value and applies it.
RECURSIVE FillLoop(_, _, _, _)
FillLoop(found, modes, n, applied) ==
  IF n > Len(found) THEN applied
  ELSE IF modes[found[n]] = "none" \/ modes[found[n]] = "fixed"
    THEN FillLoop(found, modes, n + 1, applied)
    ELSE FillLoop(found, modes, n + 1, Append(applied, found[n]))

fillForm(found, modes) == FillLoop(found, modes, 1, << >>)

CallDetectAndInject(found) ==
  /\ call' = [fn |-> "detectAndInjectQuestionControls", found |-> found,
               result |-> detectAndInjectQuestionControls(found)]
  /\ UNCHANGED <<runVars, formVars, storeVars>>

CallFillForm(found, modes) ==
  /\ call' = [fn |-> "fillForm", found |-> found, modes |-> modes,
               result |-> fillForm(found, modes)]
  /\ UNCHANGED <<runVars, formVars, storeVars>>

RangeConfigs == [type : {"range"}, min : OptionalNumbers, max : OptionalNumbers]
ExpressionConfigs == [type : {"custom_js"}, expression : Expressions]

CallGenerate(config, k) ==
  /\ call' = [fn |-> "generate", config |-> config, result |-> generate(config, k)]
  /\ UNCHANGED <<runVars, formVars, storeVars>>

CallValidateConfig(config) ==
  /\ call' = [fn |-> "validateConfig", config |-> config,
               result |-> [valid |-> validateConfig(config) = << >>,
                           errors |-> validateConfig(config)]]
  /\ UNCHANGED <<runVars, formVars, storeVars>>

(***************************************************************************)
(* Part I : RunEngine                                                      *)
(***************************************************************************)
Ended == {"resolved", "rejected"}

\* A startRun invocation that has not happened yet.
NoRun ==
  [pc |-> "unborn", i |-> 0, count |-> 0, stopOnError |-> FALSE,
   aborted |-> FALSE, remaining |-> 0, reason |-> "none",
   totalSubmissions |-> 0, completedSubmissions |-> 0, failedSubmissions |-> 0,
   isRunning |-> FALSE, currentSubmissionIndex |-> 0, errors |-> <<>>,
   generated |-> "none", threw |-> "none"]

\* const progress = { totalSubmissions: config.count, ... }
NewProgress(count, soe) ==
  [NoRun EXCEPT !.count = count, !.stopOnError = soe,
                !.totalSubmissions = count, !.isRunning = TRUE]

\* finally { progress.isRunning = false; this.runningProcess = null } and the
\* settlement of the promise startRun returned.
Finally(s, outcome, why) ==
  [s EXCEPT !.isRunning = FALSE, !.pc = outcome, !.reason = why]

\* Head of the for loop for the value of i held in s: the loop test, the abort
\* check, the index update and the call of executeSingleSubmission, which
\* suspends at its await.
LoopHead(s) ==
  IF s.i < s.count
    THEN IF s.aborted
           THEN Finally([s EXCEPT !.isRunning = FALSE], "resolved", "none")
           ELSE [s EXCEPT !.currentSubmissionIndex = s.i + 1, !.pc = "exec"]
    ELSE Finally(s, "resolved", "none")

\* The snapshot onProgress receives.
Snapshot(s) ==
  [completedSubmissions |-> s.completedSubmissions,
   failedSubmissions |-> s.failedSubmissions,
   currentSubmissionIndex |-> s.currentSubmissionIndex,
   isRunning |-> s.isRunning,
   errors |-> s.errors]

\* A slip that counts a failed iteration as completed too.
RecordOutcomeCountsBoth(s, ok) ==
  IF ok
    THEN [s EXCEPT !.completedSubmissions = @ + 1]
    ELSE [s EXCEPT !.completedSubmissions = @ + 1,
                   !.failedSubmissions = @ + 1,
                   !.errors = Append(@, s.i + 1)]

\* try { await executeSingleSubmission; completed++ } catch { failed++; errors.push }
RecordOutcome(s, ok) ==
  IF ok
    THEN [s EXCEPT !.completedSubmissions = @ + 1]
    ELSE [s EXCEPT !.failedSubmissions = @ + 1,
                   !.errors = Append(@, s.i + 1)]

\* The stop-on-error policy left out.
StopsOnErrorIgnored(s, ok) == FALSE

\* if (config.stopOnError) throw error, inside the catch of a failed iteration.
StopsOnError(s, ok) == ~ok /\ s.stopOnError

\* this.runningProcess after a step that left the run in state s.
ProcessAfter(s, cur) == IF s.pc \in Ended THEN NoProcess ELSE cur

NoStop == [during |-> "none", at |-> NoRun]

\* The invocation record a new startRun call uses: the first one that holds no
\* invocation or one whose promise has settled.
FreeSlots == {r \in RunIds : run[r].pc \in {"unborn"} \cup Ended}
NewSlot == CHOOSE r \in FreeSlots : \A q \in FreeSlots : r <= q

RunInit ==
  /\ runningProcess = NoProcess
  /\ run = [r \in RunIds |-> NoRun]
  /\ startCalls = 0
  /\ lastStart = "none"
  /\ reported = [r \in RunIds |-> <<>>]
  /\ stopInfo = [r \in RunIds |-> NoStop]
  /\ ackVisible = FALSE

\* The guard placed inside the try block: the finally clause then runs on the
\* rejected call as well.
StartRunRejectedRunsFinally ==
  /\ lastStart' = "rejected"
  /\ runningProcess' = NoProcess
  /\ UNCHANGED <<run, reported, stopInfo, ackVisible>>

\* if (this.runningProcess) throw new Error("A submission run is already in progress")
StartRunRejected ==
  /\ lastStart' = "rejected"
  /\ UNCHANGED <<runningProcess, run, reported, stopInfo, ackVisible>>

\* startRun past the guard, up to the first await.
StartRunAccepted(count, soe) ==
  /\ FreeSlots # {}
  /\ LET r == NewSlot
         s == LoopHead(NewProgress(count, soe))
     IN /\ run' = [run EXCEPT ![r] = s]
        /\ runningProcess' = ProcessAfter(s, r)
        /\ reported' = [reported EXCEPT ![r] = <<>>]
        /\ stopInfo' = [stopInfo EXCEPT ![r] = NoStop]
  /\ lastStart' = "accepted"
  /\ UNCHANGED ackVisible

StartRun(count, soe) ==
  /\ startCalls' = 1 - startCalls
  /\ UNCHANGED <<formVars, libVars, storeVars>>
  /\ IF runningProcess # NoProcess
       THEN StartRunRejected
       ELSE StartRunAccepted(count, soe)

\* The await of executeSingleSubmission settles and startRun runs on to its
\* next suspension point.  executeSingleSubmission generated a value from the
\* custom expression of the preset's answer and awaited chrome.tabs.query
\* (resolves: the query resolved); it rejects when either of them threw.
ExecDone(r, expression, resolves, delay) ==
  /\ UNCHANGED <<formVars, libVars, storeVars>>
  /\ run[r].pc = "exec"
  /\ LET gen == generate([type |-> "custom_js", expression |-> expression], 0)
         ok == ~gen.thrown /\ resolves
         s0 == [run[r] EXCEPT !.generated = gen.value,
                              !.threw = IF gen.thrown THEN "generate"
                                        ELSE IF resolves THEN "none" ELSE "query"]
         s1 == RecordOutcome(s0, ok)
     IN IF StopsOnError(s1, ok)
          THEN \* throw error: leaves the loop through finally
               /\ run' = [run EXCEPT ![r] = Finally(s1, "rejected", "error")]
               /\ runningProcess' = NoProcess
               /\ UNCHANGED reported
          ELSE IF s1.i < s1.count - 1
            THEN IF s1.aborted
                   THEN \* sleep rejects at once: signal already aborted
                        /\ run' = [run EXCEPT ![r] = Finally(s1, "rejected", "Aborted")]
                        /\ runningProcess' = NoProcess
                        /\ UNCHANGED reported
                   ELSE /\ run' = [run EXCEPT ![r] = [s1 EXCEPT !.pc = "sleep", !.remaining = delay]]
                        /\ UNCHANGED <<runningProcess, reported>>
            ELSE \* last iteration: no sleep, onProgress, i++, loop test fails
                 LET s2 == LoopHead([s1 EXCEPT !.i = @ + 1])
                 IN /\ reported' = [reported EXCEPT ![r] = Append(@, Snapshot(s1))]
                    /\ run' = [run EXCEPT ![r] = s2]
                    /\ runningProcess' = ProcessAfter(s2, runningProcess)
  /\ UNCHANGED <<startCalls, lastStart, stopInfo, ackVisible>>

\* Time passes while a run sleeps.
Tick(r) ==
  /\ UNCHANGED <<formVars, libVars, storeVars>>
  /\ run[r].pc = "sleep"
  /\ run[r].remaining > 0
  /\ run' = [run EXCEPT ![r].remaining = @ - 1]
  /\ UNCHANGED <<runningProcess, startCalls, lastStart, reported, stopInfo, ackVisible>>

\* setTimeout(resolve, ms) fires: onProgress(progress), i++, next loop head.
SleepDone(r) ==
  /\ UNCHANGED <<formVars, libVars, storeVars>>
  /\ run[r].pc = "sleep"
  /\ run[r].remaining = 0
  /\ LET s1 == run[r]
         s2 == LoopHead([s1 EXCEPT !.i = @ + 1])
     IN /\ reported' = [reported EXCEPT ![r] = Append(@, Snapshot(s1))]
        /\ run' = [run EXCEPT ![r] = s2]
        /\ runningProcess' = ProcessAfter(s2, runningProcess)
  /\ UNCHANGED <<startCalls, lastStart, stopInfo, ackVisible>>

\* sleep without its "abort" listener: the timer keeps running.
SleepAbortListenerMissing(s) == s

\* The "abort" listener sleep registered: clearTimeout, reject(new Error("Aborted")).
\* The rejection is not caught in startRun: it leaves through finally.
SleepAbortListener(s) ==
  IF s.pc = "sleep" THEN Finally(s, "rejected", "Aborted") ELSE s

\* stopRun() that notes the request and leaves the controller alone.
StopRunWithoutAbort ==
  /\ UNCHANGED <<formVars, libVars, storeVars>>
  /\ IF runningProcess # NoProcess /\ ~run[runningProcess].aborted
       THEN LET r == runningProcess
            IN /\ stopInfo' = [stopInfo EXCEPT ![r] = [during |-> run[r].pc, at |-> run[r]]]
               /\ UNCHANGED <<run, runningProcess>>
       ELSE UNCHANGED <<run, runningProcess, stopInfo>>
  /\ UNCHANGED <<startCalls, lastStart, reported, ackVisible>>

\* stopRun(): abort the controller of the running process, if any.
StopRun ==
  /\ UNCHANGED <<formVars, libVars, storeVars>>
  /\ IF runningProcess # NoProcess /\ ~run[runningProcess].aborted
       THEN LET r == runningProcess
                s == SleepAbortListener([run[r] EXCEPT !.aborted = TRUE])
            IN /\ run' = [run EXCEPT ![r] = s]
               /\ runningProcess' = ProcessAfter(s, runningProcess)
               /\ stopInfo' = [stopInfo EXCEPT ![r] = [during |-> run[r].pc, at |-> run[r]]]
       ELSE UNCHANGED <<run, runningProcess, stopInfo>>
  /\ UNCHANGED <<startCalls, lastStart, reported, ackVisible>>

\* The page shows or stops showing an acknowledgement phrase.
PageChanges ==
  /\ UNCHANGED <<formVars, libVars, storeVars>>
  /\ ackVisible' = ~ackVisible
  /\ UNCHANGED <<runningProcess, run, startCalls, lastStart, reported, stopInfo>>

\* The popup's currentProgress for run r: the payload of the latest
\* "submission_progress" message, a copy of the progress object made when
\* broadcastProgress sent it from the onProgress callback ({}: none yet).
PopupProgress(r) ==
  IF reported[r] = << >> THEN {} ELSE {reported[r][Len(reported[r])]}

\* updateProgressUI: progressSection.style.display
ProgressSectionDisplay(r) ==
  IF \E p \in PopupProgress(r) : p.isRunning THEN "block" ELSE "none"

(***************************************************************************)
(* Part II : FormAutomator                                                 *)
(*                                                                         *)
(* The form under test has two questions with injected controls: "q1", a   *)
(* choice question (a scale question runs the same code with its values as *)
(* options), and "q2", a grid question.  A probability input holds a       *)
(* decimal string; the model keeps it in tenths of a percent, or           *)
(* EmptyValue for the empty string.  config.probabilities holds numbers;   *)
(* the listeners only store integers there, kept in percent.               *)
(***************************************************************************)
QIds == {"q1", "q2"}
QOrder == <<"q1", "q2">>          \* iteration order of the questions Map
IsGrid(q) == q = "q2"
ChoiceOptions == <<"Option 1", "Option 2">>   \* config.options of q1
GridRows == <<"Row 1", "Row 2">>              \* getGridRows of q2
GridColumns == <<"Column 1", "Column 2">>     \* getGridColumns of q2
\* Rows and options are named by their position; row 0 is the one row of q1.
Rows(q) == IF IsGrid(q) THEN 1..Len(GridRows) ELSE {0}
Cols(q) == IF IsGrid(q) THEN 1..Len(GridColumns) ELSE 1..Len(ChoiceOptions)
Cells(q) == Rows(q) \X Cols(q)
FieldKeys == {key \in QIds \X (0..Len(GridRows)) : key[2] \in Rows(key[1])}

EmptyValue == 0 - 1
InputValues == {EmptyValue, 499, 1000}

LoopIds == 1..MaxLoops
NoLoop == [pc |-> "none", i |-> 0]
LoopActive == {"submitWait", "interval", "anotherWait", "anotherSettle"}

\* defaultProbabilities(optionCount)[idx], idx counted from 1
DefaultProbability(n, idx) ==
  LET base == 100 \div n
      remainder == 100 - base * n
  IN IF idx <= remainder THEN base + 1 ELSE base

\* parseFloat(input.value), NaN replaced by 0, in tenths
ParseFloatOrZero(v) == IF v = EmptyValue THEN 0 ELSE v

\* parseInt of the decimal string whose value is v tenths: the digits before the point
ParseInt(v) == IF v >= 0 THEN v \div 10 ELSE 0 - ((0 - v) \div 10)

\* Math.max(0, Math.min(100, parseInt(probInput.value || "0"))), in percent
ClampedPercent(v) ==
  LET num == IF v = EmptyValue THEN 0 ELSE ParseInt(v)
  IN IF num < 0 THEN 0 ELSE IF num > 100 THEN 100 ELSE num

Abs(x) == IF x < 0 THEN 0 - x ELSE x

\* Math.abs(sum - 100) <= 0.1, in tenths
SumIs100(sum) == Abs(sum - 1000) <= 1

\* Sum of the inputs of one row of a question as validateProbabilities reads them.
RowInputSum(inp, q, row) ==
  SumOver([c \in Cols(q) |-> ParseFloatOrZero(inp[q][<<row, c>>])], Cols(q))

InvalidRows(inp, q) == {row \in Rows(q) : ~SumIs100(RowInputSum(inp, q, row))}

\* validateProbabilities: the value it returns
Validates(md, inp, q) == md[q] # "random" \/ InvalidRows(inp, q) = {}

\* validateProbabilities: the error container afterwards.  The text names the
\* first invalid row of a grid (row 0: the message of a non-grid question).
ErrorAfterValidate(md, inp, err, q) ==
  IF Validates(md, inp, q)
    THEN [err[q] EXCEPT !.display = "none"]
    ELSE [display |-> "block",
          row |-> CHOOSE row \in InvalidRows(inp, q) :
                    \A other \in InvalidRows(inp, q) : row <= other]

\* ensureValidProbabilities with allValid = valid in place of allValid && valid:
\* the last question decides.
EnsureValidLastOnly(md, inp) == Validates(md, inp, QOrder[Len(QOrder)])

\* ensureValidProbabilities: every random-mode question is validated, none is skipped
EnsureValid(md, inp) == \A q \in QIds : Validates(md, inp, q)

ErrorsAfterEnsure(md, inp, err) ==
  [q \in QIds |-> IF md[q] = "random" THEN ErrorAfterValidate(md, inp, err, q) ELSE err[q]]

\* Weight pickWeightedOption gives an option: probabilities[opt] || Math.floor(100 / n)
EffectiveWeight(w, n) == IF w = 0 THEN 100 \div n ELSE w

RECURSIVE Cumulative(_, _)
Cumulative(weights, k) == IF k = 0 THEN 0 ELSE weights[k] + Cumulative(weights, k - 1)

\* pickWeightedOption for the draw random = r2 / 2 out of [0, total): the first
\* option at which the running difference is no longer positive.
PickWeighted(weights, n, r2) ==
  LET hits == {k \in 1..n : r2 <= 2 * Cumulative(weights, k)}
  IN IF hits = {} THEN n ELSE CHOOSE k \in hits : \A j \in hits : k <= j

\* Draws of Math.random() * total, in halves: one just below, at and just above
\* every cumulative weight.  pickWeightedOption returns the same option for
\* all draws between two of them.
DrawPoints(weights, n) ==
  LET total == Cumulative(weights, n)
      marks == UNION {{2 * Cumulative(weights, k) - 1, 2 * Cumulative(weights, k),
                       2 * Cumulative(weights, k) + 1} : k \in 0..n}
  IN {r2 \in marks : r2 >= 0 /\ r2 <= 2 * total - 1}

\* The options pickWeightedOption can return for one row of a question.
PickSet(q, row) ==
  LET n == Cardinality(Cols(q))
      weights == [c \in Cols(q) |-> EffectiveWeight(probabilities[q][<<row, c>>], n)]
  IN {PickWeighted(weights, n, r2) : r2 \in DrawPoints(weights, n)}

\* probabilities of the options of one question, by position, in percent
ProbabilityLists == UNION {[1..n -> {0, 50, 100}] : n \in 1..MaxOptions}

\* pickWeightedOption(options, probabilities): the position of the option returned
pickWeightedOption(probs, r2) ==
  LET n == Len(probs)
      weights == [k \in 1..n |-> EffectiveWeight(probs[k], n)]
  IN PickWeighted(weights, n, r2)

PickDraws(probs) ==
  DrawPoints([k \in 1..Len(probs) |-> EffectiveWeight(probs[k], Len(probs))], Len(probs))

CallPickWeightedOption(probs, r2) ==
  /\ call' = [fn |-> "pickWeightedOption", probabilities |-> probs,
               result |-> pickWeightedOption(probs, r2)]
  /\ UNCHANGED <<runVars, formVars, storeVars>>

\* fillForm: the selections the form can hold afterwards.  A fixed question is
\* left alone; a random one gets a weighted pick per row.
RECURSIVE FillsOver(_)
FillsOver(keys) ==
  IF keys = {}
    THEN {[key \in {} |-> 0]}
    ELSE LET key == CHOOSE k \in keys : TRUE
             picks == IF mode[key[1]] = "random" /\ controlsInjected
                        THEN PickSet(key[1], key[2])
                        ELSE {fieldValue[key]}
             rest == FillsOver(keys \ {key})
         IN {(key :> v) @@ fv : v \in picks, fv \in rest}

FillResults == FillsOver(FieldKeys)

\* handleSubmit with its first line left out.
HandleSubmitGuardMissing(flag) == FALSE

\* if (this.isSubmitting) return
HandleSubmitGuard(flag) == flag

\* Text of the form's submit button and of the link of the confirmation page,
\* lower-cased, as the words the code looks for in it.
SubmitText == {"submit"}
AnotherText == {"submit", "another", "response"}

\* text.includes("submit") && !text.includes("another"): the test of submitForm
\* for the button it clicks and of the capture listener for the clicks it takes.
NamesSubmit(text) == "submit" \in text /\ "another" \notin text

\* The capture listener on document calls preventDefault and stopPropagation
\* on a click it takes: such a click neither reaches the button nor submits.
ClickReachesPage(text) == ~NamesSubmit(text)

\* The form after "Submit another response": every field is cleared.
Blank == [key \in FieldKeys |-> 0]

\* The questions in fixed mode as a run starts: their fields hold their start
\* values.
FixedAtStart(md) == [q \in {k \in QIds : md[k] = "fixed"} |-> TRUE]

\* The questions fixed since the start after a step from the fields fv to fw.
FixedKept(since, fv, fw) ==
  [q \in DOMAIN since |->
     since[q] /\ \A key \in FieldKeys : key[1] = q => fw[key] = fv[key]]

\* The history with kept as its record, where it is switched on.
Tracked(history, kept) == IF history.on THEN [history EXCEPT !.kept = kept] ELSE history

FreeLoops(lps) == {l \in LoopIds : lps[l].pc \notin LoopActive}

\* The click submitForm issues reaches the capture listener, which calls
\* handleSubmit again while isSubmitting is set: it returns at its guard.
\* Without the guard each such call would start a loop of its own.
NestedHandleSubmit(lps) ==
  IF HandleSubmitGuard(TRUE)
    THEN lps
    ELSE [l \in LoopIds |-> IF l \in FreeLoops(lps) THEN [pc |-> "submitWait", i |-> 0] ELSE lps[l]]

\* handleSubmit after the await of submitForm in iteration i: the interval
\* sleep if another iteration follows, else i++, the loop test fails and
\* isSubmitting is cleared.  (flag: isSubmitting, last: who clicked last.)
AfterSubmit(lps, l, i, flag, last, filled) ==
  IF i < formCount - 1
    THEN [loops |-> [lps EXCEPT ![l] = [pc |-> "interval", i |-> i]],
          isSubmitting |-> flag, last |-> last, fills |-> filled, clicked |-> FALSE]
    ELSE [loops |-> [lps EXCEPT ![l] = NoLoop],
          isSubmitting |-> FALSE, last |-> last, fills |-> filled, clicked |-> FALSE]

\* The loop test for i and, if it passes, fillForm and submitForm up to the
\* sleep after the click (btn: the page has a submit button).
EnterIteration(lps, l, i, btn, flag, last) ==
  IF i < formCount
    THEN IF btn
           THEN [loops |-> NestedHandleSubmit([lps EXCEPT ![l] = [pc |-> "submitWait", i |-> i]]),
                 isSubmitting |-> flag, last |-> "loop", fills |-> TRUE, clicked |-> TRUE]
           ELSE AfterSubmit(lps, l, i, flag, last, TRUE)
    ELSE [loops |-> [lps EXCEPT ![l] = NoLoop],
          isSubmitting |-> FALSE, last |-> last, fills |-> FALSE, clicked |-> FALSE]

\* The state a step of handleSubmit leaves behind.
LoopStep(out) ==
  /\ loops' = out.loops
  /\ isSubmitting' = out.isSubmitting
  /\ lastClick' = out.last
  /\ IF out.fills
       THEN \E fv \in FillResults : fieldValue' = fv
       ELSE UNCHANGED fieldValue
  /\ submissions' = IF out.clicked /\ ClickReachesPage(SubmitText)
                      THEN submissions + 1 ELSE submissions
  /\ fixedSince' = Tracked(fixedSince,
                            IF out.isSubmitting
                              THEN FixedKept(fixedSince.kept, fieldValue, fieldValue')
                              ELSE << >>)

\* submissionConfig of a new FormAutomator
DefaultCount == 1
DefaultIntervalMin == 2
DefaultIntervalMax == 5

FormStart(track) ==
  /\ controlsInjected = FALSE
  /\ mode = [q \in QIds |-> "fixed"]
  /\ inputValue = [q \in QIds |-> [cell \in Cells(q) |->
                     10 * DefaultProbability(Cardinality(Cols(q)), cell[2])]]
  /\ probabilities = [q \in QIds |-> [cell \in Cells(q) |->
                        DefaultProbability(Cardinality(Cols(q)), cell[2])]]
  /\ errorBox = [q \in QIds |-> [display |-> "none", row |-> 0]]
  /\ isSubmitting = FALSE
  /\ loops = [l \in LoopIds |-> NoLoop]
  /\ formCount = DefaultCount
  /\ intervalMin = DefaultIntervalMin
  /\ intervalMax = DefaultIntervalMax
  /\ sessionConfig = {}
  /\ fieldValue = Blank
  /\ lastClick = "none"
  /\ edits = 0
  /\ submissions = 0
  /\ fixedSince = [on |-> track, kept |-> << >>]

FormInit == FormStart(FALSE)

\* setTimeout(() => this.detectAndInjectQuestionControls(), 1000)
DetectAndInjectQuestionControls ==
  /\ ~controlsInjected
  /\ controlsInjected' = TRUE
  /\ UNCHANGED <<mode, inputValue, probabilities, errorBox, isSubmitting, loops,
                 formCount, fieldValue, lastClick, edits, submissions, fixedSince>>
  /\ UNCHANGED <<runVars, libVars, storeVars, planVars>>

\* The "change" listener of the Fixed/Random toggle of question q.
ToggleMode(q) ==
  /\ controlsInjected
  /\ mode' = [mode EXCEPT ![q] = IF @ = "fixed" THEN "random" ELSE "fixed"]
  /\ errorBox' = [errorBox EXCEPT ![q] = ErrorAfterValidate(mode', inputValue, errorBox, q)]
  /\ fixedSince' = Tracked(fixedSince,
                            [k \in DOMAIN fixedSince.kept \ {q} |-> fixedSince.kept[k]])
  /\ UNCHANGED <<controlsInjected, inputValue, probabilities, isSubmitting, loops,
                 formCount, fieldValue, lastClick, edits, submissions>>
  /\ UNCHANGED <<runVars, libVars, storeVars, planVars>>

\* The "input" listener of a probability input: the user typed v.  The
\* inputs are only shown while the question is in random mode.
EditProbability(q, cell, v) ==
  /\ controlsInjected
  /\ mode[q] = "random"
  /\ edits < MaxEdits
  /\ inputValue[q][cell] # v
  /\ edits' = edits + 1
  /\ inputValue' = [inputValue EXCEPT ![q][cell] = v]
  /\ probabilities' = [probabilities EXCEPT ![q][cell] = ClampedPercent(v)]
  /\ errorBox' = [errorBox EXCEPT ![q] = ErrorAfterValidate(mode, inputValue', errorBox, q)]
  /\ UNCHANGED <<controlsInjected, mode, isSubmitting, loops, formCount, fieldValue, lastClick,
                 submissions, fixedSince>>
  /\ UNCHANGED <<runVars, libVars, storeVars, planVars>>

\* What the user can type into a number input of the panel: nothing a number
\* can be read from ({}), or a whole number.
TypedValues == {{}} \cup {{n} : n \in (0 - MaxTyped)..MaxTyped}

\* parseInt(input.value) || d
ParseIntOr(v, d) == IF v = {} \/ v = {0} THEN d ELSE CHOOSE n \in v : TRUE

\* saveStateToSession: JSON.stringify(this.submissionConfig)
SavedConfig(count, min, max) == {[count |-> count, intervalMin |-> min, intervalMax |-> max]}

\* The "input" listener of the Submissions input: the user typed v.
EditCount(v) ==
  /\ formCount # ParseIntOr(v, DefaultCount)
  /\ formCount' = ParseIntOr(v, DefaultCount)
  /\ sessionConfig' = SavedConfig(formCount', intervalMin, intervalMax)
  /\ UNCHANGED <<controlsInjected, mode, inputValue, probabilities, errorBox, isSubmitting,
                 loops, fieldValue, lastClick, edits, submissions, fixedSince,
                 intervalMin, intervalMax>>
  /\ UNCHANGED <<runVars, libVars, storeVars>>

\* The "input" listener of the Interval Min input: the user typed v.
EditIntervalMin(v) ==
  /\ intervalMin # ParseIntOr(v, DefaultIntervalMin)
  /\ intervalMin' = ParseIntOr(v, DefaultIntervalMin)
  /\ sessionConfig' = SavedConfig(formCount, intervalMin', intervalMax)
  /\ UNCHANGED <<controlsInjected, mode, inputValue, probabilities, errorBox, isSubmitting,
                 loops, formCount, fieldValue, lastClick, edits, submissions, fixedSince,
                 intervalMax>>
  /\ UNCHANGED <<runVars, libVars, storeVars>>

\* The "input" listener of the Interval Max input: the user typed v.
EditIntervalMax(v) ==
  /\ intervalMax # ParseIntOr(v, DefaultIntervalMax)
  /\ intervalMax' = ParseIntOr(v, DefaultIntervalMax)
  /\ sessionConfig' = SavedConfig(formCount, intervalMin, intervalMax')
  /\ UNCHANGED <<controlsInjected, mode, inputValue, probabilities, errorBox, isSubmitting,
                 loops, formCount, fieldValue, lastClick, edits, submissions, fixedSince,
                 intervalMin>>
  /\ UNCHANGED <<runVars, libVars, storeVars>>

\* The page is loaded again in the same tab before the question controls are
\* injected: a new FormAutomator starts from the defaults and
\* loadStateFromSession puts the saved submissionConfig in their place.
LoadStateFromSession ==
  /\ ~controlsInjected
  /\ ~isSubmitting
  /\ LET config == IF sessionConfig = {}
                     THEN [count |-> DefaultCount, intervalMin |-> DefaultIntervalMin,
                           intervalMax |-> DefaultIntervalMax]
                     ELSE CHOOSE c \in sessionConfig : TRUE
     IN /\ formCount' = config.count
        /\ intervalMin' = config.intervalMin
        /\ intervalMax' = config.intervalMax
  /\ UNCHANGED <<controlsInjected, mode, inputValue, probabilities, errorBox, isSubmitting,
                 loops, fieldValue, lastClick, edits, submissions, fixedSince, sessionConfig>>
  /\ UNCHANGED <<runVars, libVars, storeVars>>

\* The user clicks the form's submit button: the capture listener cancels the
\* click and calls handleSubmit, which runs up to its first await.
UserClicksSubmit ==
  /\ IF HandleSubmitGuard(isSubmitting)
       THEN /\ lastClick' = "busy"
            /\ submissions' = submissions + (IF ClickReachesPage(SubmitText) THEN 1 ELSE 0)
            /\ UNCHANGED <<errorBox, isSubmitting, loops, fieldValue, fixedSince>>
       ELSE /\ errorBox' = ErrorsAfterEnsure(mode, inputValue, errorBox)
            /\ IF ~EnsureValid(mode, inputValue)
                 THEN /\ lastClick' = "invalid"
                      /\ submissions' = submissions + (IF ClickReachesPage(SubmitText) THEN 1 ELSE 0)
                      /\ UNCHANGED <<isSubmitting, loops, fieldValue, fixedSince>>
                 ELSE /\ FreeLoops(loops) # {}
                      /\ LET l == CHOOSE k \in FreeLoops(loops) : \A j \in FreeLoops(loops) : k <= j
                             out == EnterIteration(loops, l, 0, TRUE, TRUE, "loop")
                         IN /\ loops' = out.loops
                            /\ isSubmitting' = out.isSubmitting
                            /\ lastClick' = out.last
                            /\ IF out.fills
                                 THEN \E fv \in FillResults : fieldValue' = fv
                                 ELSE UNCHANGED fieldValue
                            /\ submissions' = submissions
                                 + (IF ClickReachesPage(SubmitText) THEN 1 ELSE 0)
                                 + (IF out.clicked /\ ClickReachesPage(SubmitText) THEN 1 ELSE 0)
                            /\ fixedSince' = Tracked(fixedSince,
                                                      IF out.isSubmitting
                                                        THEN FixedAtStart(mode) ELSE << >>)
  /\ UNCHANGED <<controlsInjected, mode, inputValue, probabilities, formCount, edits>>
  /\ UNCHANGED <<runVars, libVars, storeVars, planVars>>

\* sleep(1000) in submitForm is over: back in handleSubmit after the await.
SubmitWaitDone(l) ==
  /\ loops[l].pc = "submitWait"
  /\ LoopStep(AfterSubmit(loops, l, loops[l].i, isSubmitting, lastClick, FALSE))
  /\ UNCHANGED <<controlsInjected, mode, inputValue, probabilities, errorBox, formCount, edits>>
  /\ UNCHANGED <<runVars, libVars, storeVars, planVars>>

\* The interval sleep is over: clickSubmitAnother starts with its sleep(1000).
IntervalDone(l) ==
  /\ loops[l].pc = "interval"
  /\ loops' = [loops EXCEPT ![l].pc = "anotherWait"]
  /\ UNCHANGED <<controlsInjected, mode, inputValue, probabilities, errorBox, isSubmitting,
                 formCount, fieldValue, lastClick, edits, submissions, fixedSince>>
  /\ UNCHANGED <<runVars, libVars, storeVars, planVars>>

\* sleep(1000) in clickSubmitAnother is over.  With a "submit another" link
\* in the page (another) it is clicked, the page shows the cleared form and
\* sleep(1500) follows; without one clickSubmitAnother returns and the next
\* iteration starts (btn: the page has a submit button then).
AnotherWaitDone(l, another, btn) ==
  /\ loops[l].pc = "anotherWait"
  /\ IF another
       THEN /\ loops' = [loops EXCEPT ![l].pc = "anotherSettle"]
            /\ fieldValue' = IF ClickReachesPage(AnotherText) THEN Blank ELSE fieldValue
            /\ fixedSince' = Tracked(fixedSince,
                                      FixedKept(fixedSince.kept, fieldValue, fieldValue'))
            /\ UNCHANGED <<isSubmitting, lastClick, submissions>>
       ELSE LoopStep(EnterIteration(loops, l, loops[l].i + 1, btn, isSubmitting, lastClick))
  /\ UNCHANGED <<controlsInjected, mode, inputValue, probabilities, errorBox, formCount, edits>>
  /\ UNCHANGED <<runVars, libVars, storeVars, planVars>>

\* sleep(1500) after the click on "submit another" is over: i++, next iteration.
AnotherSettleDone(l, btn) ==
  /\ loops[l].pc = "anotherSettle"
  /\ LoopStep(EnterIteration(loops, l, loops[l].i + 1, btn, isSubmitting, lastClick))
  /\ UNCHANGED <<controlsInjected, mode, inputValue, probabilities, errorBox, formCount, edits>>
  /\ UNCHANGED <<runVars, libVars, storeVars, planVars>>

\* applyRandomValue can throw: it runs for the questions in random mode and
\* calls into the page and into sessionStorage (setItem throws when the
\* storage is full or denied).
CanThrowInFill == controlsInjected /\ \E q \in QIds : mode[q] = "random"

\* What a throw out of fillForm leaves behind: handleSubmit has no try block,
\* its promise rejects and nothing after the throw runs.  The questions
\* before the one that threw may have been filled.
FillThrows(l) ==
  /\ CanThrowInFill
  /\ loops' = [loops EXCEPT ![l] = NoLoop]
  /\ \E fv \in FillResults \cup {fieldValue} : fieldValue' = fv

\* The user clicks the form's submit button, handleSubmit passes its two
\* guards, sets isSubmitting and fillForm throws in the first iteration.
UserClicksSubmitThrows ==
  /\ ~HandleSubmitGuard(isSubmitting)
  /\ EnsureValid(mode, inputValue)
  /\ formCount > 0
  /\ FreeLoops(loops) # {}
  /\ FillThrows(CHOOSE k \in FreeLoops(loops) : \A j \in FreeLoops(loops) : k <= j)
  /\ errorBox' = ErrorsAfterEnsure(mode, inputValue, errorBox)
  /\ isSubmitting' = TRUE
  /\ lastClick' = "threw"
  /\ submissions' = submissions + (IF ClickReachesPage(SubmitText) THEN 1 ELSE 0)
  /\ fixedSince' = Tracked(fixedSince, FixedAtStart(mode))
  /\ UNCHANGED <<controlsInjected, mode, inputValue, probabilities, formCount, edits>>
  /\ UNCHANGED <<runVars, libVars, storeVars, planVars>>

\* clickSubmitAnother has returned, the loop test passes for i + 1 and
\* fillForm throws in that iteration.
NextIterationThrows(l) ==
  /\ loops[l].pc \in {"anotherWait", "anotherSettle"}
  /\ loops[l].i + 1 < formCount
  /\ FillThrows(l)
  /\ fixedSince' = Tracked(fixedSince, FixedKept(fixedSince.kept, fieldValue, fieldValue'))
  /\ UNCHANGED <<controlsInjected, mode, inputValue, probabilities, errorBox, isSubmitting,
                 formCount, lastClick, edits, submissions>>
  /\ UNCHANGED <<runVars, libVars, storeVars, planVars>>


(***************************************************************************)
(* Part III : StorageManager                                               *)
(*                                                                         *)
(* A preset is its id; a preset list is a sequence of presets.  A call     *)
(* runs from one await to the next in one step; a storage area is read or  *)
(* written in the step in which the promise of the get or set settles.     *)
(***************************************************************************)
Procs == 1..MaxProcs
PresetIds == {"p1", "p2"}
PresetLists == {<< >>} \cup {<<a>> : a \in PresetIds}
                 \cup {<<a, b>> : <<a, b>> \in {pr \in PresetIds \X PresetIds : pr[1] # pr[2]}}

IdleTask == [op |-> "idle", pc |-> "idle", presets |-> << >>, preset |-> "",
             result |-> << >>, quiet |-> FALSE]
InFlight(t) == t.pc \notin {"idle", "done"}

StoreInit ==
  /\ syncArea = {}
  /\ localArea = {}
  /\ syncFailed = FALSE
  /\ task = [p \in Procs |-> IdleTask]
  /\ ops = 0
  /\ storeLog = [concurrent |-> FALSE, getFailed |-> FALSE, setFailed |-> FALSE, lastWrite |-> {},
                 savedIds |-> {}, direct |-> FALSE]

\* A caller makes the call t: the results of the calls that have resolved
\* are taken, and the calls in flight are no longer alone.
Begin(p, t) ==
  /\ ops < MaxOps
  /\ ops' = ops + 1
  /\ LET others == {q \in Procs \ {p} : InFlight(task[q])}
     IN /\ task' = [q \in Procs |->
                      IF q = p THEN [t EXCEPT !.quiet = others = {}]
                      ELSE IF q \in others THEN [task[q] EXCEPT !.quiet = FALSE]
                      ELSE IdleTask]
        /\ storeLog' = [storeLog EXCEPT
                          !.concurrent = @ \/ others # {},
                          !.direct = @ \/ t.op = "savePresets"]
  /\ UNCHANGED <<syncArea, localArea, syncFailed>>
  /\ UNCHANGED <<runVars, formVars, libVars>>

\* savePresets(presets) up to await chrome.storage.sync.set
StartSavePresets(p, presets) ==
  /\ ~InFlight(task[p])
  /\ Begin(p, [IdleTask EXCEPT !.op = "savePresets", !.pc = "syncSet", !.presets = presets])

\* loadPresets() up to await chrome.storage.sync.get
StartLoadPresets(p) ==
  /\ ~InFlight(task[p])
  /\ Begin(p, [IdleTask EXCEPT !.op = "loadPresets", !.pc = "syncGet"])

\* savePreset(preset) up to the await in the loadPresets it calls
StartSavePreset(p, preset) ==
  /\ ~InFlight(task[p])
  /\ Begin(p, [IdleTask EXCEPT !.op = "savePreset", !.pc = "syncGet", !.preset = preset])

\* savePreset after await this.loadPresets(): findIndex, replace or push
Upsert(presets, preset) ==
  IF \E k \in 1..Len(presets) : presets[k] = preset
    THEN presets
    ELSE Append(presets, preset)

\* loadPresets returns presets: to its caller, or into savePreset, which goes
\* on to savePresets up to await chrome.storage.sync.set.
Loaded(t, presets) ==
  IF t.op = "savePreset"
    THEN [t EXCEPT !.pc = "syncSet", !.presets = Upsert(presets, t.preset)]
    ELSE [t EXCEPT !.pc = "done", !.result = presets]

\* savePresets resolves.
Saved(t) == [t EXCEPT !.pc = "done"]

LogSaved(log, t) ==
  [log EXCEPT !.lastWrite = {t.presets},
              !.savedIds = IF t.op = "savePreset" THEN @ \cup {t.preset} ELSE @]

\* data[STORAGE_KEYS.PRESETS] of the sync area as loadPresets tests it: an
\* array, empty or not, is truthy; syncFailed is not looked at.
SyncAnswer(area, failed) == area

\* chrome.storage.sync.get settles (ok: it resolves).
SyncGetDone(p, ok) ==
  /\ task[p].pc = "syncGet"
  /\ LET data == IF ok THEN SyncAnswer(syncArea, syncFailed) ELSE {}
     IN task' = [task EXCEPT ![p] =
                   IF data # {}
                     THEN Loaded(@, CHOOSE presets \in data : TRUE)
                     ELSE [@ EXCEPT !.pc = "localGet"]]
  /\ storeLog' = [storeLog EXCEPT !.getFailed = @ \/ ~ok]
  /\ UNCHANGED <<syncArea, localArea, syncFailed, ops>>
  /\ UNCHANGED <<runVars, formVars, libVars>>

\* chrome.storage.local.get resolves: the stored list, or [].
LocalGetDone(p) ==
  /\ task[p].pc = "localGet"
  /\ task' = [task EXCEPT ![p] =
                Loaded(@, IF localArea = {} THEN << >> ELSE CHOOSE presets \in localArea : TRUE)]
  /\ UNCHANGED <<syncArea, localArea, syncFailed, ops, storeLog>>
  /\ UNCHANGED <<runVars, formVars, libVars>>

\* chrome.storage.sync.set settles (ok: the list is written and the call
\* resolves; else the catch block runs up to await chrome.storage.local.set).
SyncSetDone(p, ok) ==
  /\ task[p].pc = "syncSet"
  /\ IF ok
       THEN /\ syncArea' = {task[p].presets}
            /\ syncFailed' = FALSE
            /\ task' = [task EXCEPT ![p] = Saved(@)]
            /\ storeLog' = LogSaved(storeLog, task[p])
       ELSE /\ syncFailed' = TRUE
            /\ task' = [task EXCEPT ![p].pc = "localSet"]
            /\ storeLog' = [storeLog EXCEPT !.setFailed = TRUE]
            /\ UNCHANGED syncArea
  /\ UNCHANGED <<localArea, ops>>
  /\ UNCHANGED <<runVars, formVars, libVars>>

\* chrome.storage.local.set resolves.
LocalSetDone(p) ==
  /\ task[p].pc = "localSet"
  /\ localArea' = {task[p].presets}
  /\ task' = [task EXCEPT ![p] = Saved(@)]
  /\ storeLog' = LogSaved(storeLog, task[p])
  /\ UNCHANGED <<syncArea, syncFailed, ops>>
  /\ UNCHANGED <<runVars, formVars, libVars>>

StoreNext ==
  \/ \E p \in Procs, presets \in PresetLists : StartSavePresets(p, presets)
  \/ \E p \in Procs : StartLoadPresets(p)
  \/ \E p \in Procs, preset \in PresetIds : StartSavePreset(p, preset)
  \/ \E p \in Procs, ok \in BOOLEAN : SyncGetDone(p, ok)
  \/ \E p \in Procs : LocalGetDone(p)
  \/ \E p \in Procs, ok \in BOOLEAN : SyncSetDone(p, ok)
  \/ \E p \in Procs : LocalSetDone(p)

Init == RunInit /\ FormInit /\ LibInit /\ StoreInit

Next ==
  \/ \E count \in 0..MaxCount, soe \in BOOLEAN : StartRun(count, soe)
  \/ \E r \in RunIds, expression \in Expressions, resolves \in BOOLEAN, delay \in 0..MaxDelay :
       ExecDone(r, expression, resolves, delay)
  \/ \E r \in RunIds : Tick(r)
  \/ \E r \in RunIds : SleepDone(r)
  \/ StopRun
  \/ PageChanges

Spec == Init /\ [][Next]_vars

FormNext ==
  \/ DetectAndInjectQuestionControls
  \/ \E q \in QIds : ToggleMode(q)
  \/ \E q \in QIds : \E cell \in Cells(q), v \in InputValues : EditProbability(q, cell, v)
  \/ \E n \in 1..MaxFormCount : EditCount({n})
  \/ UserClicksSubmit
  \/ \E l \in LoopIds : SubmitWaitDone(l)
  \/ \E l \in LoopIds : IntervalDone(l)
  \/ \E l \in LoopIds, another \in BOOLEAN, btn \in BOOLEAN : AnotherWaitDone(l, another, btn)
  \/ \E l \in LoopIds, btn \in BOOLEAN : AnotherSettleDone(l, btn)

FormSpec == Init /\ [][FormNext]_vars

\* The form with the runs in which fillForm throws.
FaultNext ==
  \/ FormNext
  \/ UserClicksSubmitThrows
  \/ \E l \in LoopIds : NextIterationThrows(l)

FaultSpec == Init /\ [][FaultNext]_vars

\* The inputs of the control panel, with whatever the user types into them.
PlanNext ==
  \/ \E v \in TypedValues : EditCount(v)
  \/ \E v \in TypedValues : EditIntervalMin(v)
  \/ \E v \in TypedValues : EditIntervalMax(v)
  \/ LoadStateFromSession

PlanSpec == Init /\ [][PlanNext]_vars

\* The form with the history of the fixed questions switched on.
TrackedInit == RunInit /\ FormStart(TRUE) /\ LibInit /\ StoreInit

TrackedFormSpec == TrackedInit /\ [][FormNext]_vars

\* The call returns.
Return ==
  /\ call # NoCall
  /\ call' = NoCall
  /\ UNCHANGED <<runVars, formVars, storeVars>>

\* A function is called when the call before it has returned.
LibNext ==
  \/ /\ call = NoCall
     /\ \E bodyText \in PageTexts : CallDetectConfirmationPage(bodyText)
  \/ /\ call = NoCall
     /\ \E config \in RangeConfigs \cup ExpressionConfigs, k \in RandomDraws :
          CallGenerate(config, k)
  \/ /\ call = NoCall
     /\ \E config \in RangeConfigs : CallValidateConfig(config)
  \/ /\ call = NoCall
     /\ \E options \in OptionLists, weights \in WeightMaps :
          \E draw \in WeightedDraws(weights) : CallGenerateWeighted(options, weights, draw)
  \/ /\ call = NoCall
     /\ \E sourceText \in SourceTexts, targetTexts \in TargetLists :
          CallFuzzyMatchText(sourceText, targetTexts)
  \/ /\ call = NoCall
     /\ \E element \in Elements : CallDetectQuestionType(element)
  \/ /\ call = NoCall
     /\ \E labels \in NodeLists, type \in ChoiceTypes : CallExtractOptions(labels, type)
  \/ /\ call = NoCall
     /\ \E headers \in NodeLists, short \in {ns \in NodeLists : Len(ns) <= 1} :
          \/ CallExtractGridStructure(headers, short)
          \/ CallExtractGridStructure(short, headers)
  \/ /\ call = NoCall
     /\ \E columnHeaders \in NodeLists, cellCount \in 0..MaxNodes :
          CallGetGridColumns(columnHeaders, cellCount)
  \/ /\ call = NoCall
     /\ \E probs \in ProbabilityLists :
          \E r2 \in PickDraws(probs) : CallPickWeightedOption(probs, r2)
  \/ /\ call = NoCall
     /\ \E found \in Discoveries : CallDetectAndInject(found)
  \/ /\ call = NoCall
     /\ \E found \in Discoveries, modes \in QuestionModes : CallFillForm(found, modes)
  \/ /\ call = NoCall
     /\ \E config \in DelayConfigs, draw1 \in RandomDraws, draw2 \in RandomDraws :
          CallCalculateDelay(config, draw1, draw2)
  \/ /\ call = NoCall
     /\ \E min \in 0..MaxDelay, max \in 0..MaxDelay, draw \in RandomDraws :
          min <= max /\ CallSubmitInterval(min, max, draw)
  \/ Return

LibSpec == Init /\ [][LibNext]_vars

StoreSpec == Init /\ [][StoreNext]_vars

\* The awaited promise of an iteration settles and timers fire.
FairSpec ==
  /\ Spec
  /\ \A r \in RunIds :
       /\ WF_vars(\E expression \in Expressions, resolves \in BOOLEAN, delay \in 0..MaxDelay :
                     ExecDone(r, expression, resolves, delay))
       /\ WF_vars(Tick(r))
       /\ WF_vars(SleepDone(r))

(***************************************************************************)
(* Claims about RunEngine                                                  *)
(***************************************************************************)
Active == {"exec", "sleep"}

\* C1: a startRun call made while a run is active throws and changes nothing:
\* the running process, every invocation's loop state and progress object
\* (counters, index, errors, isRunning, abort flag) and what was reported
\* stay as they were, so the active run goes on as if the call was never made.
C1_RejectedStartChangesNothing ==
  [][(runningProcess # NoProcess /\ startCalls' # startCalls)
       => /\ lastStart' = "rejected"
          /\ UNCHANGED <<runningProcess, run, reported, stopInfo>>]_vars

\* A run that saw a rejected startRun call and then ran to its normal end.
C1_Witness ==
  /\ lastStart = "rejected"
  /\ run[1].pc = "resolved"
  /\ run[1].count = MaxCount
  /\ run[1].completedSubmissions + run[1].failedSubmissions = MaxCount

\* C3: once stopRun() was invoked during the inter-iteration sleep, the run
\* has ended (the sleep did not wait for the time it had left), isRunning is
\* false, and index, counters and errors are those at the moment of the stop.
C3_StopDuringSleep ==
  \A r \in RunIds :
    stopInfo[r].during = "sleep"
      => /\ run[r].pc \in Ended
         /\ run[r].isRunning = FALSE
         /\ run[r].remaining = stopInfo[r].at.remaining
         /\ run[r].currentSubmissionIndex = stopInfo[r].at.currentSubmissionIndex
         /\ run[r].completedSubmissions = stopInfo[r].at.completedSubmissions
         /\ run[r].failedSubmissions = stopInfo[r].at.failedSubmissions
         /\ run[r].errors = stopInfo[r].at.errors

\* A run stopped in a sleep that still had time to go, after a finished iteration.
C3_Witness ==
  \E r \in RunIds :
    /\ stopInfo[r].during = "sleep"
    /\ stopInfo[r].at.remaining > 0
    /\ stopInfo[r].at.currentSubmissionIndex = 2
    /\ run[r].pc \in Ended

\* C25: once stopRun() was invoked on an active run, no new iteration begins:
\* the iteration index stays the one the run had at the stop, a value is
\* generated and a submission counted only for that iteration, and only if it
\* was under way at the stop; stopRun() with no active run changes nothing,
\* and only a run that was stopped while active has its signal aborted.
C25_NoNewIteration ==
  \A r \in RunIds :
    /\ stopInfo[r].during # "none"
         => /\ run[r].aborted
            /\ run[r].currentSubmissionIndex = stopInfo[r].at.currentSubmissionIndex
            /\ run[r].completedSubmissions + run[r].failedSubmissions
                 <= stopInfo[r].at.currentSubmissionIndex
            /\ stopInfo[r].during = "sleep" => run[r].generated = stopInfo[r].at.generated
    /\ run[r].aborted => stopInfo[r].during # "none"

C25_IdleStop ==
  (runningProcess = NoProcess /\ StopRun) => UNCHANGED vars

C25_StopEndsIterations == []C25_NoNewIteration /\ [][C25_IdleStop]_vars

\* A run of several iterations stopped while its first submission was under
\* way, which has ended since with that submission counted.
C25_Witness ==
  \E r \in RunIds :
    /\ stopInfo[r].during = "exec"
    /\ stopInfo[r].at.currentSubmissionIndex = 1
    /\ run[r].count > 1
    /\ run[r].pc \in Ended
    /\ run[r].completedSubmissions = 1

\* C4: no exception escapes startRun: whatever the outcome of a run, the
\* promise startRun returned resolves with the progress object.
C4_NoExceptionEscapes ==
  \A r \in RunIds : run[r].pc # "rejected"

\* C7: in a run, completed + failed never exceeds the total and equals the
\* number of finished iterations, errors has one entry per failure, the index
\* never exceeds the total and never decreases, and the step that finishes an
\* iteration adds one to exactly one of the two counters while no other step
\* of the run changes them.
C7_Counters ==
  \A r \in RunIds :
    LET s == run[r] IN
    /\ s.completedSubmissions + s.failedSubmissions <= s.totalSubmissions
    /\ Len(s.errors) = s.failedSubmissions
    /\ s.currentSubmissionIndex <= s.totalSubmissions
    /\ s.completedSubmissions + s.failedSubmissions
         = IF s.pc = "exec" THEN s.currentSubmissionIndex - 1 ELSE s.currentSubmissionIndex

C7_Step ==
  \A r \in RunIds :
    LET s == run[r]
        t == run'[r]
    IN s.pc \in Active =>
         /\ t.currentSubmissionIndex >= s.currentSubmissionIndex
         /\ IF s.pc = "exec" /\ t.pc # "exec"
              THEN \/ /\ t.completedSubmissions = s.completedSubmissions + 1
                      /\ t.failedSubmissions = s.failedSubmissions
                   \/ /\ t.completedSubmissions = s.completedSubmissions
                      /\ t.failedSubmissions = s.failedSubmissions + 1
              ELSE /\ t.completedSubmissions = s.completedSubmissions
                   /\ t.failedSubmissions = s.failedSubmissions

C7_CountersConsistent == []C7_Counters /\ [][C7_Step]_vars

\* A finished run of MaxCount iterations with completions and failures.
C7_Witness ==
  \E r \in RunIds :
    /\ run[r].pc = "resolved"
    /\ run[r].completedSubmissions >= 1
    /\ run[r].failedSubmissions >= 1
    /\ run[r].completedSubmissions + run[r].failedSubmissions = MaxCount

\* C8: an iteration is counted as completed only if the acknowledgement text
\* is on the page when it is counted.
C8_CompletedOnlyIfAcknowledged ==
  [][\A r \in RunIds :
       (run[r].pc = "exec"
          /\ run'[r].completedSubmissions = run[r].completedSubmissions + 1)
         => ackVisible]_vars

\* C9: a failed iteration is recorded in errors exactly once; under
\* stopOnError the run ends there with isRunning = false and never resumes;
\* otherwise the run goes on: it ends if that was the last iteration, else it
\* sleeps (unless stop was requested), and a sleep is left only into the next
\* iteration or by a stop.
C9_ErrorsOnce ==
  \A r \in RunIds :
    \A a, b \in 1..Len(run[r].errors) :
      run[r].errors[a] = run[r].errors[b] => a = b

C9_Step ==
  \A r \in RunIds :
    LET s == run[r]
        t == run'[r]
    IN /\ (s.pc = "exec" /\ t.failedSubmissions = s.failedSubmissions + 1)
            => /\ t.errors = Append(s.errors, s.currentSubmissionIndex)
               /\ IF s.stopOnError
                    THEN t.pc = "rejected" /\ ~t.isRunning /\ runningProcess' = NoProcess
                    ELSE IF s.currentSubmissionIndex = s.count
                      THEN t.pc = "resolved"
                      ELSE IF s.aborted THEN t.pc \in Ended ELSE t.pc = "sleep"
       /\ (s.pc = "sleep" /\ t.pc # "sleep")
            => \/ /\ t.pc = "exec"
                  /\ t.currentSubmissionIndex = s.currentSubmissionIndex + 1
               \/ t.aborted /\ t.pc \in Ended
       /\ (s.pc \in Ended /\ t # s)
            => /\ startCalls' # startCalls
               /\ t.completedSubmissions = 0
               /\ t.failedSubmissions = 0
               /\ t.errors = <<>>

C9_FailurePolicy ==
  /\ []C9_ErrorsOnce
  /\ [][C9_Step]_vars
  /\ \A r \in RunIds :
       (run[r].pc = "sleep" /\ ~run[r].stopOnError /\ run[r].failedSubmissions > 0)
         ~> (run[r].pc # "sleep")

\* A run under stopOnError ended by the failure of an iteration that was not
\* its last one, after an iteration that completed.
C9_Witness ==
  \E r \in RunIds :
    /\ run[r].stopOnError
    /\ run[r].pc = "rejected"
    /\ run[r].reason = "error"
    /\ run[r].completedSubmissions = 1
    /\ run[r].errors = <<2>>
    /\ run[r].count = MaxCount

\* C10: when a run has ended, the last snapshot onProgress received includes
\* the counters and errors of every finished iteration.
C10_EveryOutcomeReported ==
  \A r \in RunIds :
    (run[r].pc \in Ended /\ run[r].currentSubmissionIndex > 0)
      => /\ reported[r] # <<>>
         /\ LET last == reported[r][Len(reported[r])]
            IN /\ last.completedSubmissions = run[r].completedSubmissions
               /\ last.failedSubmissions = run[r].failedSubmissions
               /\ last.errors = run[r].errors

\* C29: when a run has ended, the last progress state delivered to the
\* observer and broadcast to the popup has isRunning = false, and the popup
\* does not show the run as running.
C29_LastProgressNotRunning ==
  \A r \in RunIds :
    run[r].pc \in Ended
      => /\ \A p \in PopupProgress(r) : ~p.isRunning
         /\ ProgressSectionDisplay(r) = "none"

(***************************************************************************)
(* Claims about FormAutomator                                              *)
(***************************************************************************)
C2_ActiveLoops == {l \in LoopIds : loops[l].pc \in LoopActive}

\* C2: in every reachable state at most one handleSubmit loop is active, and
\* isSubmitting is set exactly while it is: no click on the submit button,
\* by the user or by the loop's own submitForm, starts a second loop.
C2_AtMostOneLoop ==
  /\ Cardinality(C2_ActiveLoops) <= 1
  /\ isSubmitting <=> C2_ActiveLoops # {}

\* The loop has issued its own click and sits in the interval sleep, and a
\* click of the user arrived at handleSubmit while it was running.
C2_Witness ==
  /\ isSubmitting
  /\ lastClick = "busy"
  /\ \E l \in LoopIds : loops[l].pc = "interval"

\* Random-mode questions with a row whose inputs do not sum to 100 within 0.1.
C5_Invalid == {q \in QIds : mode[q] = "random" /\ InvalidRows(inputValue, q) # {}}

C5_FirstInvalidRow(q) ==
  CHOOSE row \in InvalidRows(inputValue, q) : \A other \in InvalidRows(inputValue, q) : row <= other

C5_ErrorShown ==
  \A q \in C5_Invalid :
    errorBox[q].display = "block" /\ errorBox[q].row = C5_FirstInvalidRow(q)

C5_Step ==
  (~isSubmitting /\ C5_Invalid # {})
    => /\ ~isSubmitting'
       /\ UNCHANGED <<loops, fieldValue>>
       /\ lastClick' # lastClick
            => /\ lastClick' = "invalid"
               /\ \A q \in C5_Invalid : errorBox'[q].display = "block"

\* C5: while no run is active and a random-mode question has a row of
\* probability inputs that does not sum to 100 within 0.1, no step starts a
\* run: isSubmitting stays false, no field is written, no loop is entered (so
\* no submit is issued), a click of the user ends at the validation, and the
\* error of every such question is displayed, naming its first invalid row.
C5_InvalidProbabilitiesBlockRun == []C5_ErrorShown /\ [][C5_Step]_vars

\* The user clicked submit with the choice question invalid and the grid
\* valid, both in random mode: nothing runs, nothing was written.
C5_Witness ==
  /\ lastClick = "invalid"
  /\ ~isSubmitting
  /\ mode = [q \in QIds |-> "random"]
  /\ C5_Invalid = {"q1"}
  /\ errorBox["q1"].display = "block"
  /\ errorBox["q2"].display = "none"
  /\ \A key \in FieldKeys : fieldValue[key] = 0

\* config.probabilities of a row of a question, summed, in tenths
C6_ConfigSum(q, row) ==
  10 * SumOver([c \in Cols(q) |-> probabilities[q][<<row, c>>]], Cols(q))

\* C6: when a run starts, the probabilities map the run selects from sums to
\* 100 within 0.1 in every row of every random-mode question.
C6_RunUsesValidProbabilities ==
  [][(~isSubmitting /\ isSubmitting')
       => \A q \in QIds : mode'[q] = "random"
            => \A row \in Rows(q) : SumIs100(C6_ConfigSum(q, row)')]_vars

C11_Next(a, b) ==
  \/ a.pc = "none" /\ b.pc = "submitWait" /\ b.i = 0
  \/ a.pc = "submitWait" /\ b.pc = "interval" /\ b.i = a.i
  \/ a.pc = "submitWait" /\ b = NoLoop
  \/ a.pc = "interval" /\ b.pc = "anotherWait" /\ b.i = a.i
  \/ a.pc = "anotherWait" /\ b.pc = "anotherSettle" /\ b.i = a.i
  \/ a.pc \in {"anotherWait", "anotherSettle"} /\ b.pc \in {"submitWait", "interval"} /\ b.i = a.i + 1
  \/ a.pc \in {"anotherWait", "anotherSettle"} /\ b = NoLoop /\ a.i + 1 < formCount

\* C11: the steps of a run come in order.  A loop starts with the fill and
\* submit of iteration 0; after the submit of iteration i comes either the end
\* of the run or the interval sleep, then the reset, then the fill and submit
\* of iteration i + 1; and the run never ends out of a sleep and reset unless
\* one more iteration (fill, no submit button found) ran after them.
C11_StepsInOrder ==
  [][\A l \in LoopIds : loops'[l] # loops[l] => C11_Next(loops[l], loops'[l])]_vars

\* C12: at the submit of every iteration, the fields of each question that
\* has been in fixed mode since the run started have held their start values.
C12_FixedValueKept ==
  \A l \in LoopIds :
    loops[l].pc = "submitWait" => \A q \in DOMAIN fixedSince.kept : fixedSince.kept[q]

\* C13: every step in which submitForm clicks the submit button submits the
\* form once.
C13_SubmitClickDelivered ==
  [][\A l \in LoopIds :
       (loops'[l].pc = "submitWait" /\ loops'[l] # loops[l])
         => submissions' = submissions + 1]_vars

\* C23: the run plan of the control panel has count >= 1, intervalMin >= 0
\* and intervalMax >= intervalMin in every reachable state.
C23_PlanValid ==
  /\ formCount >= 1
  /\ intervalMin >= 0
  /\ intervalMax >= intervalMin

\* C28: a run that has ended, by completing, by a stop or by an error thrown
\* inside its loop, has released the single-flight flag: runningProcess is
\* set only while its run is under way, and isSubmitting only while a loop of
\* handleSubmit is, so that a later start is accepted.
C28_FlagReleased ==
  /\ runningProcess # NoProcess => run[runningProcess].pc \in Active
  /\ isSubmitting => \E l \in LoopIds : loops[l].pc \in LoopActive

(***************************************************************************)
(* Claims about the library functions                                      *)
(***************************************************************************)
\* C14: detectConfirmationPage returns true exactly for the page texts that
\* contain, letter case ignored, one of the phrases of confirmText.
C14_DetectsEveryPhrase ==
  call.fn = "detectConfirmationPage"
    => (call.result <=>
          \E n \in 1..Len(confirmText) :
            Includes(ToLowerCase(call.text), ToLowerCase(confirmText[n])))

\* C15: for integer bounds min <= max, generate on the range spec returns an
\* integer r with min <= r <= max, and min itself when min = max.
C15_RangeWithinBounds ==
  (call.fn = "generate" /\ call.config.type = "range"
     /\ call.config.min # {} /\ call.config.max # {}
     /\ NumberOf(call.config.min) <= NumberOf(call.config.max))
    => /\ ~call.result.thrown
       /\ NumberOf(call.config.min) <= call.result.value
       /\ call.result.value <= NumberOf(call.config.max)

\* C16: validateConfig reports a range spec invalid, with an error, when a
\* bound is missing or min > max, and valid when both are numbers, min <= max.
C16_RangeValidated ==
  (call.fn = "validateConfig" /\ call.config.type = "range")
    => LET bad == \/ call.config.min = {}
                  \/ call.config.max = {}
                  \/ NumberOf(call.config.min) > NumberOf(call.config.max)
       IN /\ call.result.valid <=> ~bad
          /\ bad => Len(call.result.errors) >= 1

\* The weight the claim gives an option: its entry in weights, 1 without one.
C17_EffectiveWeight(weights, option) ==
  IF option \in DOMAIN weights THEN weights[option] ELSE 1

\* C17: generateWeighted returns a member of options, and every option of
\* positive effective weight is the result for some value of Math.random().
C17_WeightedSelection ==
  call.fn = "generateWeighted"
    => LET options == call.options
           weights == call.weights
           possible == {generateWeighted(options, weights, draw) : draw \in WeightedDraws(weights)}
       IN /\ \E n \in 1..Len(options) : call.result = options[n]
          /\ \A n \in 1..Len(options) :
               C17_EffectiveWeight(weights, options[n]) > 0 => options[n] \in possible

\* An iteration of run r ends in this step.
C18_IterationEnds(r) ==
  /\ run[r].pc = "exec"
  /\ run'[r].completedSubmissions + run'[r].failedSubmissions
       > run[r].completedSubmissions + run[r].failedSubmissions

C18_Step ==
  \A r \in RunIds :
    (C18_IterationEnds(r) /\ run'[r].generated = "null" /\ run'[r].threw = "none")
      => /\ run'[r].completedSubmissions = run[r].completedSubmissions + 1
         /\ run'[r].failedSubmissions = run[r].failedSubmissions
         /\ run'[r].errors = run[r].errors
         /\ run'[r].reason # "error"

\* C18: no iteration fails because value generation threw: an expression whose
\* evaluation fails yields null, and when nothing else fails in the iteration
\* it is counted as completed, no error is recorded and the run is not ended.
C18_GenerationFailureTolerated ==
  /\ [](\A r \in RunIds : run[r].threw # "generate")
  /\ [][C18_Step]_vars

\* A run with stopOnError that generated null in its last iteration and
\* resolved with every iteration completed.
C18_Witness ==
  \E r \in RunIds :
    /\ run[r].pc = "resolved"
    /\ run[r].stopOnError
    /\ run[r].generated = "null"
    /\ run[r].count = 2
    /\ run[r].completedSubmissions = 2
    /\ run[r].errors = << >>

\* The three stages of a call of fuzzyMatchText, taken over key as the query:
\* the first candidate equal to key ignoring case; if there is none the first
\* candidate with containment in either direction; if there is none the first
\* candidate of the highest similarity, provided it exceeds 0.7, else null.
C19_Staged(key, targetTexts, result) ==
  LET indices == 1..Len(targetTexts)
      lower(n) == LowerCase(targetTexts[n])
      equal == {n \in indices : lower(n) = key}
      containing == {n \in indices : Includes(key, lower(n)) \/ Includes(lower(n), key)}
      score(n) == stringSimilarity(key, lower(n))
      firstOf(S, n) == n \in S /\ \A m \in S : n <= m
  IN /\ result = {} \/ \E n \in indices : result = {targetTexts[n]}
     /\ equal # {} => \E n \in indices : firstOf(equal, n) /\ result = {targetTexts[n]}
     /\ equal = {} /\ containing # {} =>
          \E n \in indices : firstOf(containing, n) /\ result = {targetTexts[n]}
     /\ equal = {} /\ containing = {} =>
          IF \E n \in indices : Greater(score(n), Threshold)
            THEN \E n \in indices :
                   /\ result = {targetTexts[n]}
                   /\ Greater(score(n), Threshold)
                   /\ \A m \in indices : ~Greater(score(m), score(n))
                   /\ \A m \in indices : m < n => Greater(score(n), score(m))
            ELSE result = {}

\* C19 as stated: fuzzyMatchText applies its stages in strict priority to the
\* query compared ignoring case: a candidate equal to the query ignoring case
\* wins over an earlier candidate that contains it, containment in either
\* direction comes next, the similarity stage last, and the result is null or
\* a candidate.
C19_StagesOnQuery ==
  call.fn = "fuzzyMatchText" =>
    C19_Staged(LowerCase(call.sourceText), call.targetTexts, call.result)


\* The rules of detectQuestionType as tables, in their priority: the keyword
\* or value looked for and the type it stands for.
C20_MarkerRules ==
  << <<"paragraph", "paragraph">>, <<"short_text", "short_answer">>, <<"radio", "radio">>,
     <<"checkbox", "checkbox">>, <<"dropdown", "dropdown">>, <<"linear", "linear_scale">>,
     <<"date", "date">>, <<"time", "time">>, <<"file", "file_upload">> >>
C20_TypeRules ==
  << <<"text", "short_answer">>, <<"file", "file_upload">>, <<"date", "date">>,
     <<"time", "time">> >>
C20_TagRules == << <<"TEXTAREA", "paragraph">>, <<"SELECT", "dropdown">> >>
C20_RoleRules ==
  << <<"radio", "radio">>, <<"checkbox", "checkbox">>, <<"listbox", "dropdown">> >>
C20_TextRules ==
  << <<"scale", "scale", "linear_scale">>, <<"file", "file", "file_upload">>,
     <<"check", "checkbox", "checkbox">>, <<"select", "choose", "dropdown">> >>

\* The types of the rules that match the element, in the order of priority,
\* with the fallback last.
C20_Matches(element) ==
  LET marker(r) == r[1] \in element.dataType
      type(r) == element.type \in {r[1], IF r[1] = "text" THEN "TEXT" ELSE r[1]}
      tag(r) == element.tagName = r[1]
      role(r) == element.role = r[1]
      text(r) == r[1] \in element.text.cues \/ r[2] \in element.ariaLabel.cues
      types(rules) == [k \in 1..Len(rules) |-> rules[k][Len(rules[k])]]
  IN types(SelectSeq(C20_MarkerRules, marker)) \o types(SelectSeq(C20_TypeRules, type))
       \o types(SelectSeq(C20_TagRules, tag)) \o types(SelectSeq(C20_RoleRules, role))
       \o types(SelectSeq(C20_TextRules, text)) \o <<"short_answer">>

\* C20: detectQuestionType always returns a question type, the one of the
\* first rule that matches in the fixed priority marker, input type and tag
\* name, role, text heuristics; an element that matches no rule is a
\* short_answer.
C20_FirstMatchWins ==
  call.fn = "detectQuestionType" =>
    /\ call.result \in QuestionTypes
    /\ call.result = Head(C20_Matches(call.element))

\* An element whose input type and role name different types.
C20_Witness ==
  /\ call.fn = "detectQuestionType"
  /\ call.element.dataType = {}
  /\ call.element.type = "date"
  /\ call.element.role = "radio"
  /\ call.result = "date"

\* A label list extracted from the node texts: no empty entry, no two equal
\* entries, every label of the nodes in it, in the order of first appearance.
C21_FirstOf(texts, label) ==
  CHOOSE n \in 1..Len(texts) : Trim(texts[n]) = label /\ \A m \in 1..(n - 1) : Trim(texts[m]) # label

C21_Labels(texts, list) ==
  /\ \A k \in 1..Len(list) : list[k] # << >>
  /\ \A j, k \in 1..Len(list) : j # k => list[j] # list[k]
  /\ {list[k] : k \in 1..Len(list)} = {Trim(texts[n]) : n \in 1..Len(texts)} \ {<< >>}
  /\ \A j, k \in 1..Len(list) : j < k => C21_FirstOf(texts, list[j]) < C21_FirstOf(texts, list[k])

\* C21: the option lists of dropdown, radio and checkbox questions and the
\* row and column labels of a grid have no empty entry and no two entries of
\* the same trimmed text, and keep the labels in first-seen document order.
C21_LabelsUniqueInOrder ==
  /\ (call.fn = "extractOptions" /\ call.type \in {"dropdown", "radio", "checkbox"})
       => C21_Labels(call.labels, call.result)
  /\ call.fn = "extractGridStructure"
       => /\ C21_Labels(call.rowHeaders, call.result.rows)
          /\ C21_Labels(call.columnHeaders, call.result.columns)
  /\ (call.fn = "getGridColumns" /\ Len(call.result) > 0 /\ call.result[1][1] # "Option ")
       => C21_Labels(call.columnHeaders, call.result)

\* C24: the delay slept between two submissions is at least the configured
\* minimum and at most the configured maximum, in handleSubmit and in
\* RunEngine.calculateDelay, whenever the minimum is not above the maximum.
C24_DelayWithinBounds ==
  (call.fn \in {"calculateDelay", "submitInterval"} /\ call.min <= call.max)
    => /\ call.min * call.result.den <= call.result.num
       /\ call.result.num <= call.max * call.result.den

\* C26: when some option of the question has a positive weight, neither
\* generateWeighted nor pickWeightedOption returns an option whose configured
\* weight is 0.
C26_ZeroWeightNeverPicked ==
  /\ call.fn = "generateWeighted"
       => LET positive == {n \in 1..Len(call.options) :
                             /\ call.options[n] \in DOMAIN call.weights
                             /\ call.weights[call.options[n]] > 0}
          IN positive # {}
               => ~(call.result \in DOMAIN call.weights /\ call.weights[call.result] = 0)
  /\ call.fn = "pickWeightedOption"
       => ((\E k \in DOMAIN call.probabilities : call.probabilities[k] > 0)
             => call.probabilities[call.result] # 0)

\* The number of entries of a sequence that are e.
C27_Count(seq, e) == Cardinality({n \in DOMAIN seq : seq[n] = e})

\* C27: in one pass of fillForm every random-mode question among the
\* discovered elements has a value drawn and applied exactly once, however
\* many of the elements resolve to it; the controls of a question are
\* injected once as well.
C27_AppliedOncePerQuestion ==
  /\ call.fn = "fillForm"
       => \A e \in EntryIds :
            (call.modes[e] = "random" /\ C27_Count(call.found, e) >= 1)
              => C27_Count(call.result, e) = 1
  /\ call.fn = "detectAndInjectQuestionControls"
       => \A e \in EntryIds :
            C27_Count(call.found, e) >= 1 => C27_Count(call.result, e) = 1

(***************************************************************************)
(* Claims about StorageManager                                             *)
(***************************************************************************)
\* C22: with the calls made one after the other and no storage read failing,
\* a loadPresets that follows a savePresets(P) that resolved returns P, also
\* when P went to the local area because the sync write failed.
C22_LoadReturnsSaved ==
  \A p \in Procs :
    (/\ task[p].op = "loadPresets"
     /\ task[p].pc = "done"
     /\ ~storeLog.concurrent
     /\ ~storeLog.getFailed
     /\ storeLog.lastWrite # {})
      => {task[p].result} = storeLog.lastWrite

\* C30: when presets have been written by savePreset calls only, in flight
\* at the same time or not, and no storage call has failed, a loadPresets
\* made after they resolved returns every preset saved, each id once.
C30_NoPresetLost ==
  \A p \in Procs :
    (/\ task[p].op = "loadPresets"
     /\ task[p].pc = "done"
     /\ task[p].quiet
     /\ ~storeLog.direct
     /\ ~storeLog.getFailed
     /\ ~storeLog.setFailed)
      => /\ {task[p].result[k] : k \in 1..Len(task[p].result)} = storeLog.savedIds
         /\ Len(task[p].result) = Cardinality(storeLog.savedIds)

====
